---------------------------- MODULE Spec2Model ----------------------------
(***************************************************************************)
(* A model of sambot's job orchestration layer: the GitHub project-board   *)
(* poller (github/poller.py), the RQ job pipeline (jobs/worker.py), the    *)
(* startup recovery (main.py) and the PR merge logic (github/pr.py).       *)
(***************************************************************************)
EXTENDS Integers, Sequences, FiniteSets, TLC

(***************************************************************************)
(* Bounds of the model.                                                    *)
(***************************************************************************)
NumIssues == 2
MaxCount == 2
NumStories == 1
NumRetryStories == 2
NumWorkers == 1
MaxJobs == 4
MaxRetryJobs == 2
MaxReviews == 2
MaxQueue == 1
NumRaceWorkers == 2

(* The issue numbers on the board, and the items top-to-bottom as          *)
(* get_items returns them: the board lists the highest number first, so    *)
(* board order differs from the order of the issue numbers.                *)
IssuesOf(items) == DOMAIN items
BoardSize(items) == Cardinality(DOMAIN items)
BoardOrder(items) == [k \in 1..BoardSize(items) |-> BoardSize(items) + 1 - k]

(***************************************************************************)
(* Status names.  The board's Status field is a single-select field whose  *)
(* option names are free text; the code compares them through str.lower(). *)
(***************************************************************************)
TRIGGER_STATUS == "ready"

OptsTitle == {"Todo", "Ready", "In progress", "In review", "Blocked"}
OptsUpper == {"TODO", "READY", "IN PROGRESS", "IN REVIEW", "BLOCKED"}

(* str.lower() on the strings of the model. *)
Lower(s) ==
    CASE s \in {"Ready", "READY", "ready"} -> "ready"
      [] s \in {"In progress", "IN PROGRESS", "in Progress", "in progress"}
            -> "in progress"
      [] s \in {"In review", "IN REVIEW", "in review"} -> "in review"
      [] s \in {"Blocked", "BLOCKED", "blocked"} -> "blocked"
      [] s \in {"Todo", "TODO", "todo"} -> "todo"
      [] s \in {"Main", "MAIN", "main"} -> "main"
      [] s \in {"Master", "MASTER", "master"} -> "master"
      [] s \in {"Develop", "DEVELOP", "develop"} -> "develop"
      [] s \in {"Bug", "BUG", "bug"} -> "bug"
      [] OTHER -> s

VARIABLES
    statusOptions,   \* ProjectsClient._status_options: the board's option names
    board,           \* board[i]: the Status of issue i's project item ("" = none)
    seen_issues,     \* GitHubPoller._seen_issues
    left_ready,      \* GitHubPoller._left_ready
    retry_issues,    \* the Redis set sambot:retry_issues
    lastTick,        \* what the _poll that was the last step did (history)
    obsAway,         \* seen issues a tick observed outside the trigger status (history)
    trigCount,       \* on_trigger invocations per issue, saturating (history)
    disturbed,       \* issues that left the trigger status or got a signal (history)
    returned,        \* dispatched issues that went trigger -> other -> trigger (history)
    streak,          \* dispatches of consecutive ticks with nothing else happening (history)
    phase,           \* the application: "down", "recover" (lifespan startup) or "polling"
    queue,           \* the RQ queue: the jobs enqueued and not yet taken
    started,         \* the queue's StartedJobRegistry
    wk,              \* wk[w]: where worker w is in process_story, and its locals
    ledger,          \* the rows of table StoryJob, by id
    lastRun,         \* the process_story that returned in the last step (history)
    lastScan,        \* the _recover_interrupted_jobs that was the last step (history)
    mergeCall,       \* a call of PRManager.rebase_merge: its inputs, its progress
    prs,             \* the repository's pull requests: open, base, approved
    seen_approved_prs, \* GitHubPoller._seen_approved_prs
    loop,            \* GitHubPoller.start: where its loop is, _running, what the
                     \* iteration raised, the issues handed over (history)
    apprHist,        \* the approvals ticks have observed, the callbacks fired (history)
    delivery,        \* a run of the Pipeline's delivery: _commit_and_push, create_pr
    retryAsk,        \* the issues the retry guard blocked, those of them a
                     \* person moved back to the trigger status since, the
                     \* signalled issues enqueued since the signal, the
                     \* attempts that ran the coder and were sealed failed
                     \* (history; `follow` names the last two where kept)
    call             \* a call of update_status or create_branch_name: its
                     \* arguments and what it gave

pollerVars == <<seen_issues, left_ready, retry_issues>>
histVars == <<lastTick, obsAway, trigCount, disturbed, returned, streak>>
sysVars == <<phase, queue, started, wk, ledger, lastRun, lastScan, retryAsk>>
apprVars == <<prs, seen_approved_prs, loop, apprHist>>
vars == <<statusOptions, board, pollerVars, histVars, sysVars, mergeCall, apprVars,
          delivery, call>>

(***************************************************************************)
(* GitHubPoller._poll, as pure operators over the fetched items.  `items`  *)
(* is the status of every board item as get_items returned it.             *)
(***************************************************************************)

(* Mutant: every seen item with a status counts as having left. *)
TrackLeftAnyStatus(items, seen, left) ==
    left \cup {i \in seen \cap IssuesOf(items) : Lower(items[i]) # ""}

TrackLeftUnseen(items, seen, left) ==
    left \cup {i \in IssuesOf(items) :
                  /\ Lower(items[i]) # ""
                  /\ Lower(items[i]) # TRIGGER_STATUS}

(* Issues a dispatched item has left the trigger status for (lines 133-137). *)
TrackLeft(items, seen, left) ==
    left \cup {i \in seen \cap IssuesOf(items) :
                  /\ Lower(items[i]) # ""
                  /\ Lower(items[i]) # TRIGGER_STATUS}

(* ready_issues (lines 141-145). *)
ReadyIssues(items) == {i \in IssuesOf(items) : Lower(items[i]) = TRIGGER_STATUS}

(* Mutant: nothing is recycled on return. *)
RecycledNever(items, left) == {}

(* recycled = _left_ready & ready_issues (line 146). *)
Recycled(items, left) == left \cap ReadyIssues(items)

(* Mutant: a signal recycles a seen issue whatever its status. *)
RedisRecycledAnyStatus(retry, seen, items) == retry \cap seen

(* redis_recycled = retry_issues & _seen_issues & ready_issues (line 161). *)
RedisRecycled(retry, seen, items) == (retry \cap seen) \cap ReadyIssues(items)

(* Mutant: the loop does not break after the first eligible item. *)
FirstEligibleNoBreak(items, seen) ==
    {i \in IssuesOf(items) : Lower(items[i]) = TRIGGER_STATUS /\ i \notin seen}

(* The dispatch loop (lines 172-197): the items it triggers, which is the  *)
(* first item in board order that is in the trigger status and not seen    *)
(* (the loop breaks after it), or none.                                    *)
FirstEligible(items, seen) ==
    LET order == BoardOrder(items)
        cand  == {k \in DOMAIN order :
                    /\ Lower(items[order[k]]) = TRIGGER_STATUS
                    /\ order[k] \notin seen}
    IN  IF cand = {} THEN {}
        ELSE {order[CHOOSE k \in cand : \A m \in cand : k <= m]}

FetchOutcomes == {"ok", "error"}
RedisOutcomes == {"ok", "down"}

(* SeenState and the left set after the two recycling steps of a tick      *)
(* (lines 133-170); rds: the Redis calls succeed or raise.                 *)
SeenAfterRecycle(items, seen, left, retry, rds) ==
    LET seen1 == seen \ Recycled(items, TrackLeft(items, seen, left))
    IN  IF rds = "ok" THEN seen1 \ RedisRecycled(retry, seen1, items) ELSE seen1

LeftAfterRecycle(items, seen, left, retry, rds) ==
    LET left1 == TrackLeft(items, seen, left)
        seen1 == seen \ Recycled(items, left1)
        left2 == left1 \ Recycled(items, left1)
    IN  IF rds = "ok" THEN left2 \ RedisRecycled(retry, seen1, items) ELSE left2

(* The signals a tick consumes (lines 166-168). *)
Consumed(items, seen, left, retry, rds) ==
    LET seen1 == seen \ Recycled(items, TrackLeft(items, seen, left))
    IN  IF rds = "ok" THEN RedisRecycled(retry, seen1, items) ELSE {}

(* The issues a tick over `items` dispatches. *)
PollPick(items, rds) ==
    FirstEligible(items,
                  SeenAfterRecycle(items, seen_issues, left_ready, retry_issues, rds))

(* What one _poll does to the poller and to the Redis set (lines 111-197); *)
(* fetch: get_items returns or raises (and _poll with it).                 *)
PollCore(fetch, rds) ==
    IF fetch = "error"
    THEN UNCHANGED pollerVars
    ELSE LET ds == PollPick(board, rds)
             seen2 == SeenAfterRecycle(board, seen_issues, left_ready, retry_issues, rds)
         IN  /\ left_ready' = LeftAfterRecycle(board, seen_issues, left_ready,
                                                retry_issues, rds)
             /\ retry_issues' = retry_issues \
                                  Consumed(board, seen_issues, left_ready, retry_issues, rds)
             /\ seen_issues' = seen2 \cup ds


(***************************************************************************)
(* History of a poller's ticks.                                            *)
(***************************************************************************)
NoTick == [ok |-> FALSE, full |-> FALSE, ds |-> {}, back |-> {},
           cbRaised |-> FALSE, escaped |-> {}]
NoStreak == [on |-> FALSE, start |-> <<>>, got |-> <<>>, n |-> 0]

(* No process_story has just returned; no recovery scan has just run. *)
NoRun == [issue |-> 0, ret |-> "", at |-> "", row |-> 0, faults |-> {},
          said |-> "", age |-> 0]
NoScan == [ran |-> FALSE, ok |-> FALSE, failed |-> {}, moved |-> {}]

Bump(c) == IF c < MaxCount THEN c + 1 ELSE c

(* All eligible items, in board order. *)
EligibleList(items, seen) ==
    SelectSeq(BoardOrder(items),
              LAMBDA i : Lower(items[i]) = TRIGGER_STATUS /\ i \notin seen)

(* A streak counts the consecutive complete ticks (items fetched, Redis    *)
(* read) during and between which nothing changed but by their dispatches, *)
(* starting from the items that were eligible at the first of them.  A     *)
(* tick that puts a seen issue back among the eligible ones starts anew.   *)
StreakAfter(fetch, rds, ds) ==
    IF fetch = "error" \/ rds = "down" THEN NoStreak
    ELSE LET seen2 == SeenAfterRecycle(board, seen_issues, left_ready, retry_issues, rds)
             cont == streak.on /\ seen2 = seen_issues
             st == IF cont THEN streak.start ELSE EligibleList(board, seen2)
             gt == IF cont THEN streak.got ELSE <<>>
             nn == IF cont THEN streak.n ELSE 0
             new == SelectSeq(BoardOrder(board), LAMBDA i : i \in ds)
         IN  [on |-> TRUE, start |-> st,
              got |-> IF Len(gt) <= BoardSize(board) THEN gt \o new ELSE gt,
              n |-> IF nn <= BoardSize(board) THEN nn + 1 ELSE nn]

(* Seen issues this tick observes in a non-empty status other than the     *)
(* trigger status. *)
ObservedAway(items, seen) ==
    {i \in seen \cap IssuesOf(items) : Lower(items[i]) \notin {"", TRIGGER_STATUS}}

(* lets what on_trigger raises leave _poll *)
PollEscapesCallback(fetch, cb, ds) ==
    (IF fetch = "error" THEN {"board"} ELSE {})
        \cup (IF ds # {} /\ cb = "raise" THEN {"callback"} ELSE {})

(* The exceptions that leave _poll: what get_items raises does (line 125); *)
(* what on_trigger raises is caught and logged (lines 187-194).            *)
PollEscapes(fetch, cb, ds) ==
    IF fetch = "error" THEN {"board"} ELSE {}

TickHistory(fetch, rds, cb) ==
    LET ds == IF fetch = "error" THEN {} ELSE PollPick(board, rds)
    IN  /\ lastTick' = [ok |-> fetch = "ok", full |-> fetch = "ok" /\ rds = "ok",
                        ds |-> ds,
                        back |-> IF fetch = "ok" THEN obsAway \cap ReadyIssues(board)
                                 ELSE {},
                        cbRaised |-> ds # {} /\ cb = "raise",
                        escaped |-> PollEscapes(fetch, cb, ds)]
        /\ obsAway' = IF fetch = "error" THEN obsAway
                      ELSE (obsAway \cup ObservedAway(board, seen_issues))
                           \ ReadyIssues(board)
        /\ trigCount' = [i \in DOMAIN trigCount |->
                            IF i \in ds THEN Bump(trigCount[i]) ELSE trigCount[i]]
        /\ returned' = returned \ ds
        /\ streak' = StreakAfter(fetch, rds, ds)
        /\ UNCHANGED disturbed

(* One iteration's _poll of a poller whose on_trigger only records the     *)
(* call, or raises (the callback's own effects are the caller's).          *)
Tick ==
    /\ \E fetch \in FetchOutcomes, rds \in RedisOutcomes, cb \in {"ok", "raise"} :
          /\ PollCore(fetch, rds)
          /\ TickHistory(fetch, rds, cb)
    /\ UNCHANGED <<call, delivery, apprVars, mergeCall, statusOptions, board, sysVars>>

(***************************************************************************)
(* The board and the Redis set as the poller's environment writes them.    *)
(***************************************************************************)

(* looks the name up as written only *)
OptionForExact(opts, name) == IF name \in opts THEN name ELSE ""

(* The option of the board whose name equals `name` case-insensitively;    *)
(* "" when there is none (update_status, projects.py lines 330-339).       *)
OptionFor(opts, name) ==
    IF name \in opts THEN name
    ELSE IF \E o \in opts : Lower(o) = Lower(name)
         THEN CHOOSE o \in opts : Lower(o) = Lower(name)
         ELSE ""

(* The history a write of issue i's status to s leaves. *)
NoteMove(i, s) ==
    /\ disturbed' = IF Lower(board[i]) = TRIGGER_STATUS /\ Lower(s) # TRIGGER_STATUS
                    THEN disturbed \cup {i} ELSE disturbed
    /\ returned' = IF /\ trigCount[i] > 0
                      /\ Lower(board[i]) \notin {TRIGGER_STATUS, ""}
                      /\ Lower(s) = TRIGGER_STATUS
                   THEN returned \cup {i} ELSE returned
    /\ streak' = NoStreak
    /\ lastTick' = NoTick

(* Somebody (a human, the pipeline) moves an item or clears its Status. *)
EnvMove ==
    /\ \E i \in IssuesOf(board) :
         \E s \in {OptionFor(statusOptions, "Ready"),
                   OptionFor(statusOptions, "In progress"), ""} :
            /\ s # board[i]
            /\ board' = [board EXCEPT ![i] = s]
            /\ NoteMove(i, s)
    /\ UNCHANGED <<call, delivery, apprVars, mergeCall, statusOptions, pollerVars, obsAway, trigCount, sysVars>>

(* The pipeline's crash handler signals a dispatched issue for retry       *)
(* (worker.py lines 563-567).                                              *)
EnvSignal ==
    /\ \E i \in IssuesOf(board) :
          /\ trigCount[i] > 0
          /\ i \notin retry_issues
          /\ retry_issues' = retry_issues \cup {i}
          /\ disturbed' = disturbed \cup {i}
    /\ streak' = NoStreak
    /\ lastTick' = NoTick
    /\ UNCHANGED <<call, delivery, apprVars, mergeCall, statusOptions, board, seen_issues, left_ready,
                   obsAway, trigCount, returned, sysVars>>

(* The key sambot:retry_issues expires (TTL 600 s, worker.py line 567). *)
SignalExpire ==
    /\ retry_issues # {}
    /\ retry_issues' = {}
    /\ retryAsk' = [retryAsk EXCEPT !.answered = {}]
    /\ streak' = NoStreak
    /\ lastTick' = NoTick
    /\ lastRun' = NoRun
    /\ lastScan' = NoScan
    /\ UNCHANGED <<call, delivery, apprVars, mergeCall, statusOptions, board, seen_issues, left_ready, obsAway,
                   trigCount, disturbed, returned, phase, queue, started, wk,
                   ledger>>

(***************************************************************************)
(* The job system around the poller: the RQ queue and its workers, the     *)
(* StoryJob table, and the application that hosts the poller.              *)
(***************************************************************************)
Workers == 1..NumWorkers

PROCESS_STORY == "sambot.jobs.worker.process_story"

(* A worker between jobs. *)
Idle == [pc |-> "idle", issue |-> 0, row |-> 0]

(* No rebase_merge is being called. *)
NoMerge == [pc |-> "none"]
NoDelivery == [pc |-> "none"]
NoAsk == [blocked |-> {}, asked |-> {}, answered |-> {}, coded |-> {},
          follow |-> {}]
NoFn == [fn |-> "none"]

(* No pull request, and no loop of a poller to look at. *)
NoPulls ==
    /\ prs = <<>>
    /\ seen_approved_prs = {}
    /\ loop = [pc |-> "none"]
    /\ apprHist = [pc |-> "none"]

(* No job enqueued or running, an empty StoryJob table. *)
SystemIdle(ph) ==
    /\ mergeCall = NoMerge
    /\ delivery = NoDelivery
    /\ NoPulls
    /\ phase = ph
    /\ queue = <<>>
    /\ started = {}
    /\ wk = [w \in Workers |-> Idle]
    /\ ledger = <<>>
    /\ lastRun = NoRun
    /\ lastScan = NoScan
    /\ retryAsk = NoAsk
    /\ call = NoFn

(* A poller just constructed (poller.py lines 57-69) over any board. *)
InitPoller ==
    /\ statusOptions \in {OptsTitle, OptsUpper}
    /\ board \in [1..NumIssues -> {OptionFor(statusOptions, "Ready"),
                                   OptionFor(statusOptions, "In progress"), ""}]
    /\ seen_issues = {}
    /\ left_ready = {}
    /\ retry_issues = {}
    /\ lastTick = NoTick
    /\ obsAway = {}
    /\ trigCount = [i \in 1..NumIssues |-> 0]
    /\ disturbed = {}
    /\ returned = {}
    /\ streak = NoStreak
    /\ SystemIdle("polling")

NextPoller == Tick \/ EnvMove \/ EnvSignal \/ SignalExpire

SpecPoller == InitPoller /\ [][NextPoller]_vars

(* mark_seen (lines 105-107): the poller's owner marks an issue as          *)
(* dispatched.                                                             *)
MarkSeen ==
    /\ \E i \in IssuesOf(board) :
          /\ i \notin seen_issues
          /\ seen_issues' = seen_issues \cup {i}
    /\ lastTick' = NoTick
    /\ streak' = NoStreak
    /\ UNCHANGED <<call, delivery, apprVars, mergeCall, statusOptions, board, sysVars,
                   left_ready, retry_issues, obsAway, trigCount, disturbed, returned>>

NextMarked == Tick \/ EnvMove \/ EnvSignal \/ SignalExpire \/ MarkSeen

(* The poller with every operation of its interface. *)
SpecMarked == InitPoller /\ [][NextMarked]_vars


(***************************************************************************)
(* Properties of the poller.                                               *)
(***************************************************************************)

(* Item a is above item b on the board. *)
Above(a, b) == a > b

IsReady(i) == Lower(board[i]) = TRIGGER_STATUS

Min(a, b) == IF a <= b THEN a ELSE b

(* C1: an issue that has been in the trigger status ever since it entered  *)
(* it, and that got no recycle signal, has been handed to on_trigger at    *)
(* most once; it is in SeenState exactly when it was handed over once; and *)
(* a tick that fetched the board passes it over only to dispatch an item   *)
(* above it.                                                               *)
C1_DispatchedExactlyOnce ==
    \A i \in IssuesOf(board) \ disturbed :
        /\ trigCount[i] <= 1
        /\ (trigCount[i] = 1) <=> (i \in seen_issues)
        /\ (lastTick.ok /\ IsReady(i) /\ trigCount[i] = 0)
              => \E d \in lastTick.ds : Above(d, i)

(* An undisturbed issue, dispatched once, that two further ticks in a row  *)
(* found in the trigger status without dispatching anything.               *)
C1_Witness ==
    \E i \in IssuesOf(board) \ disturbed :
        /\ trigCount[i] = 1 /\ IsReady(i)
        /\ lastTick.ok /\ lastTick.ds = {}
        /\ streak.on /\ streak.n >= 2 /\ streak.got = <<>>

(* C2: a tick dispatches at most one issue; the issue it dispatches is in  *)
(* the trigger status, was not in SeenState when the loop ran (unseen, or  *)
(* recycled by this tick), and every item above it in the trigger status   *)
(* is in SeenState; a tick dispatches nothing only when every item in the  *)
(* trigger status is in SeenState; and over consecutive ticks with no      *)
(* other change the N eligible items are dispatched one per tick in board  *)
(* order.                                                                  *)
C2_OnePerTickInBoardOrder ==
    [][ lastTick'.ok =>
          LET ds == lastTick'.ds
          IN  /\ Cardinality(ds) <= 1
              /\ \A d \in ds :
                    /\ IsReady(d)
                    /\ d \notin seen_issues \/ d \in left_ready \/ d \in retry_issues
                    /\ \A j \in IssuesOf(board) :
                          (Above(j, d) /\ IsReady(j)) => j \in seen_issues'
              /\ (ds = {}) => \A j \in IssuesOf(board) : IsReady(j) => j \in seen_issues'
              /\ streak'.on =>
                    streak'.got = SubSeq(streak'.start, 1,
                                         Min(streak'.n, Len(streak'.start)))
      ]_vars

(* Two items were eligible and two consecutive ticks dispatched them, the  *)
(* upper one first.                                                        *)
C2_Witness ==
    /\ streak.on /\ streak.n = 2
    /\ Len(streak.start) = 2
    /\ streak.got = streak.start
    /\ lastTick.ok /\ lastTick.ds = {streak.start[2]}

(* C3 as stated: an issue that was dispatched, went to another status and  *)
(* came back to the trigger status is dispatched again.  Hence no tick     *)
(* that fetched the board ends with nothing dispatched while such an issue *)
(* sits in the trigger status without a pending signal: that tick leaves   *)
(* the poller as it found it, and so would every later tick.               *)
C3_AnyRoundTripRedispatched ==
    (lastTick.ok /\ lastTick.ds = {}) =>
        (returned \cap ReadyIssues(board)) \ retry_issues = {}

(* C3, amended: a seen issue that a tick observed in a non-empty status    *)
(* other than the trigger status and that this tick observes back in the   *)
(* trigger status is dispatched by this tick, or is out of SeenState       *)
(* (eligible again) while this tick dispatches an item above it.           *)
C3_ObservedRoundTripRedispatched ==
    lastTick.ok =>
        \A i \in lastTick.back :
            \/ i \in lastTick.ds
            \/ /\ i \notin seen_issues
               /\ \E d \in lastTick.ds : Above(d, i)

(* An issue without a recycle signal is dispatched a second time by the    *)
(* tick that observes it back.                                             *)
C3_Witness ==
    \E i \in lastTick.back :
        /\ i \in lastTick.ds /\ trigCount[i] = 2
        /\ i \notin retry_issues /\ i \in returned \cup lastTick.ds


(***************************************************************************)
(* process_story (jobs/worker.py lines 275-587), one action per stage.     *)
(* Every call to the board, to GitHub, to Redis or to a collaborator       *)
(* either returns or raises.                                               *)
(***************************************************************************)
MAX_RETRIES == 3

(* The ids of the rows of issue i with status FAILED (lines 311-316). *)
FailedRows(rows, i) ==
    {k \in DOMAIN rows : rows[k].issue = i /\ rows[k].status = "failed"}

(* Mutant: the retry guard trips one failure late. *)
RetryGuardLate(rows, i) == Cardinality(FailedRows(rows, i)) > MAX_RETRIES

(* Mutant: the retry guard never trips. *)
RetryGuardOff(rows, i) == FALSE

(* len(past_failures) >= MAX_RETRIES (line 317). *)
RetryGuard(rows, i) == Cardinality(FailedRows(rows, i)) >= MAX_RETRIES

(* Mutant: the attempt's row is not written. *)
NewRowLost(rows, i) == rows

(* The table after the attempt's row is added with status RUNNING (lines   *)
(* 366-371).                                                               *)
NewRow(rows, i) == Append(rows, [issue |-> i, status |-> "running"])

(* session.get(StoryJob, id) followed by a status update and commit. *)
Seal(rows, k, s) ==
    IF k \in DOMAIN rows THEN [rows EXCEPT ![k].status = s] ELSE rows

(* _move_status / _move_blocked: the item of issue i gets the option that  *)
(* matches `name`.                                                         *)
Moved(items, i, name) == [items EXCEPT ![i] = OptionFor(statusOptions, name)]

(* The job record of the process_story that worker w runs. *)
JobOf(w) == [fn |-> PROCESS_STORY, arg |-> wk[w].issue, by |-> w]

(* Every step that is not a tick, a return or a scan ends what the history *)
(* says about "the last step".                                             *)
Forget ==
    /\ lastTick' = NoTick
    /\ lastRun' = NoRun
    /\ lastScan' = NoScan

(* process_story returns (or raises): RQ takes the job off the registry.   *)
Return(w, ret, at, faults, said) ==
    /\ wk' = [wk EXCEPT ![w] = Idle]
    /\ started' = started \ {JobOf(w)}
    /\ lastRun' = [issue |-> wk[w].issue, ret |-> ret, at |-> at,
                   row |-> wk[w].row, faults |-> faults, said |-> said,
                   age |-> 0]
    /\ lastTick' = NoTick
    /\ lastScan' = NoScan

(* The attempts of issue i since its last success that ran the coder and   *)
(* whose row was sealed FAILED (history).                                  *)
FailedCoding(i) == Cardinality({p \in retryAsk.coded : p[1] = i})

(* Those of them sealed since the application last started. *)
FailedCodingThisRun(i) == Cardinality({p \in retryAsk.coded : p[1] = i /\ ~p[3]})

(* The stages of process_story from the agent loop on (lines 441-552): an  *)
(* attempt that fails in one of them has invoked the coder.                *)
CoderRan(at) == at \notin {"guard", "setup", "move", "clone"}

(* The history after an attempt of issue i that ran the coder is sealed    *)
(* FAILED (lines 537-546, 574-581).                                        *)
NoteFailedCoding(h, i) ==
    IF "coded" \in h.follow
    THEN [h EXCEPT !.coded = @ \cup {<<i, FailedCoding(i) + 1, FALSE>>}]
    ELSE h

(* The history after an attempt of issue i is sealed SUCCESS (line 495). *)
NoteSuccess(h, i) == [h EXCEPT !.coded = {p \in @ : p[1] # i}]

(* The stages whose exception reaches the handler before the names         *)
(* `asyncio` (line 400) and `_move_status` (line 408) are bound: both are  *)
(* local names of process_story, so the handler's line 559 raises          *)
(* UnboundLocalError, which the handler's own except (line 570) swallows.  *)
HandlerBound(at) == at # "setup"

(* Mutant: the handler pushes no recycle signal. *)
HandlerSignalsNever(at, hf) == FALSE

(* The handler reaches and completes the sadd of line 566. *)
HandlerSignals(at, hf) == HandlerBound(at) /\ hf \cap {"move", "signal"} = {}

(* The handler's move to Ready takes effect (line 559). *)
HandlerMoves(at, hf) == HandlerBound(at) /\ "move" \notin hf

(* The failures of its own calls that the handler can run into: none, the  *)
(* move to Ready (the signal is then skipped), the Redis calls, or the     *)
(* database session that seals the row (lines 574-581, outside any try).   *)
HandlerFaults == {{}, {"move"}, {"signal"}, {"seal"}}

(* except Exception (lines 554-587), entered from stage `at` with the      *)
(* board as `items`; hf: the handler's own calls that raise.               *)
Handler(w, at, items, rows, hf) ==
    LET i == wk[w].issue
    IN  /\ board' = IF HandlerMoves(at, hf) THEN Moved(items, i, "Ready") ELSE items
        /\ retry_issues' = IF HandlerSignals(at, hf)
                           THEN retry_issues \cup {i} ELSE retry_issues
        /\ ledger' = IF "seal" \in hf THEN rows ELSE Seal(rows, wk[w].row, "failed")
        /\ retryAsk' =
              LET h == IF HandlerSignals(at, hf)
                       THEN [retryAsk EXCEPT !.answered = @ \ {i}] ELSE retryAsk
              IN  IF CoderRan(at) /\ "seal" \notin hf
                  THEN NoteFailedCoding(h, i) ELSE h
        /\ Return(w, IF "seal" \in hf THEN "raised" ELSE "error", at,
                  IF HandlerBound(at) THEN hf ELSE hf \cap {"seal"}, "")


CallOutcomes == {"ok", "raise"}

(* A worker takes the job at the head of the queue. *)
TakeJob ==
    /\ \E w \in DOMAIN wk :
          /\ wk[w].pc = "idle"
          /\ queue # <<>>
          /\ Head(queue).fn = PROCESS_STORY
          /\ wk' = [wk EXCEPT ![w] = [pc |-> "guard", issue |-> Head(queue).arg,
                                      row |-> 0]]
          /\ started' = started \cup {[fn |-> PROCESS_STORY,
                                       arg |-> Head(queue).arg, by |-> w]}
          /\ queue' = Tail(queue)
    /\ Forget
    /\ UNCHANGED <<call, retryAsk, delivery, apprVars, mergeCall, statusOptions, board, pollerVars, obsAway, trigCount,
                   disturbed, returned, streak, phase, ledger>>

(* Lines 304-371: the retry guard, which blocks the issue and returns, or  *)
(* else the creation of the attempt's row with status RUNNING.  gf: the    *)
(* calls of the blocking branch that raise (each is logged and passed).    *)
(* All of it runs before the try of line 373: when init_db or a database   *)
(* session raises, the exception leaves process_story.                     *)
Guard ==
    /\ \E w \in DOMAIN wk, db \in CallOutcomes :
          /\ wk[w].pc = "guard"
          /\ IF db = "raise"
             THEN /\ Return(w, "raised", "guard", {"db"}, "")
                  /\ UNCHANGED <<board, ledger, retryAsk>>
             ELSE IF RetryGuard(ledger, wk[w].issue)
             THEN \E gf \in SUBSET {"move", "comment"} :
                     /\ board' = IF "move" \in gf THEN board
                                 ELSE Moved(board, wk[w].issue, "Blocked")
                     /\ Return(w, "blocked", "guard", gf,
                               IF "comment" \in gf THEN "" ELSE "retries")
                     /\ retryAsk' = [retryAsk EXCEPT
                                        !.blocked = @ \cup {wk[w].issue},
                                        !.asked = @ \ {wk[w].issue}]
                     /\ UNCHANGED ledger
             ELSE /\ Len(ledger) < MaxJobs
                  /\ ledger' = NewRow(ledger, wk[w].issue)
                  /\ wk' = [wk EXCEPT ![w].pc = "setup",
                                      ![w].row = Len(ledger) + 1]
                  /\ retryAsk' = [retryAsk EXCEPT
                                     !.blocked = @ \ {wk[w].issue},
                                     !.asked = @ \ {wk[w].issue}]
                  /\ Forget
                  /\ UNCHANGED <<board, started>>
    /\ UNCHANGED <<call, delivery, apprVars, mergeCall, statusOptions, pollerVars, obsAway, trigCount,
                   disturbed, returned, streak, phase, queue>>

(* Lines 375-397: clients, Slack, get_issue, the title written to the row. *)
Setup ==
    /\ \E w \in DOMAIN wk :
          /\ wk[w].pc = "setup"
          /\ \E out \in CallOutcomes :
                IF out = "ok"
                THEN /\ wk' = [wk EXCEPT ![w].pc = "move"]
                     /\ Forget
                     /\ UNCHANGED <<board, retry_issues, ledger, started, retryAsk>>
                ELSE Handler(w, "setup", board, ledger, {})
    /\ UNCHANGED <<call, delivery, apprVars, mergeCall, statusOptions, seen_issues, left_ready, obsAway, trigCount,
                   disturbed, returned, streak, phase, queue>>

(* Lines 399-417: the item goes to "In progress". *)
MoveInProgress ==
    /\ \E w \in DOMAIN wk :
          /\ wk[w].pc = "move"
          /\ \E out \in CallOutcomes :
                IF out = "ok"
                THEN /\ board' = Moved(board, wk[w].issue, "In progress")
                     /\ wk' = [wk EXCEPT ![w].pc = "work"]
                     /\ Forget
                     /\ UNCHANGED <<retry_issues, ledger, started, retryAsk>>
                ELSE \E hf \in HandlerFaults :
                        Handler(w, "move", board, ledger, hf)
    /\ UNCHANGED <<call, delivery, apprVars, mergeCall, statusOptions, seen_issues, left_ready, obsAway, trigCount,
                   disturbed, returned, streak, phase, queue>>

(* Lines 419-456: clone and feature branch ("clone"), then the handlers    *)
(* and the agent loop ("code"), which raise or yield the agent's result.   *)
WorkOutcomes == {"clone", "code", "success", "stuck"}

Work ==
    /\ \E w \in DOMAIN wk :
          /\ wk[w].pc = "work"
          /\ \E out \in WorkOutcomes :
                IF out \in {"success", "stuck"}
                THEN /\ wk' = [wk EXCEPT ![w].pc = IF out = "success"
                                                   THEN "deliver" ELSE "giveup"]
                     /\ Forget
                     /\ UNCHANGED <<board, retry_issues, ledger, started, retryAsk>>
                ELSE \E hf \in HandlerFaults :
                        Handler(w, out, board, ledger, hf)
    /\ UNCHANGED <<call, delivery, apprVars, mergeCall, statusOptions, seen_issues, left_ready, obsAway, trigCount,
                   disturbed, returned, streak, phase, queue>>


(* Lines 459-502 of the success branch: commit and push, PR description,   *)
(* create_pr, the move to "In review", the row sealed SUCCESS.  "policy":   *)
(* _commit_and_push or create_pr refuses a protected branch and raises     *)
(* ValueError (line 192; pr.py line 126).                                  *)
DeliverOutcomes == {"ok", "push", "policy", "review"}

Deliver ==
    /\ \E w \in DOMAIN wk :
          /\ wk[w].pc = "deliver"
          /\ \E out \in DeliverOutcomes :
                IF out = "ok"
                THEN /\ board' = Moved(board, wk[w].issue, "In review")
                     /\ ledger' = Seal(ledger, wk[w].row, "success")
                     /\ wk' = [wk EXCEPT ![w].pc = "compress"]
                     /\ retryAsk' = NoteSuccess(retryAsk, wk[w].issue)
                     /\ Forget
                     /\ UNCHANGED <<retry_issues, started>>
                ELSE \E hf \in HandlerFaults :
                        Handler(w, out, board, ledger, hf)
    /\ UNCHANGED <<call, delivery, apprVars, mergeCall, statusOptions, seen_issues, left_ready, obsAway, trigCount,
                   disturbed, returned, streak, phase, queue>>

(* Lines 504-518: compress_and_save_memory, then the success return. *)
Compress ==
    /\ \E w \in DOMAIN wk :
          /\ wk[w].pc = "compress"
          /\ \E out \in CallOutcomes :
                IF out = "ok"
                THEN /\ Return(w, "success", "", {}, "")
                     /\ UNCHANGED <<board, retry_issues, ledger, retryAsk>>
                ELSE \E hf \in HandlerFaults :
                        Handler(w, "compress", board, ledger, hf)
    /\ UNCHANGED <<call, delivery, apprVars, mergeCall, statusOptions, seen_issues, left_ready, obsAway, trigCount,
                   disturbed, returned, streak, phase, queue>>

(* Lines 520-552, the agent did not succeed: the move to "Blocked", the    *)
(* comment on the issue, the row sealed FAILED.                            *)
GiveUpOutcomes == {"ok", "block", "comment"}

SealFailedNot(rows, k) == rows

(* Lines 537-546: the attempt's row is sealed FAILED with result.error. *)
SealFailed(rows, k) == Seal(rows, k, "failed")

GiveUp ==
    /\ \E w \in DOMAIN wk :
          /\ wk[w].pc = "giveup"
          /\ \E out \in GiveUpOutcomes :
                CASE out = "ok" ->
                        /\ board' = Moved(board, wk[w].issue, "Blocked")
                        /\ ledger' = SealFailed(ledger, wk[w].row)
                        /\ Return(w, "blocked", "", {}, "unable")
                        /\ retryAsk' = NoteFailedCoding(retryAsk, wk[w].issue)
                        /\ UNCHANGED retry_issues
                  [] out = "block" ->
                        \E hf \in HandlerFaults :
                           Handler(w, "block", board, ledger, hf)
                  [] out = "comment" ->
                        \E hf \in HandlerFaults :
                           Handler(w, "comment",
                                   Moved(board, wk[w].issue, "Blocked"), ledger, hf)
    /\ UNCHANGED <<call, delivery, apprVars, mergeCall, statusOptions, seen_issues, left_ready, obsAway, trigCount,
                   disturbed, returned, streak, phase, queue>>

(* The worker process dies in the middle of a job (kill, host restart):    *)
(* nothing of process_story runs any more, and the job's id stays in the   *)
(* started registry.                                                       *)
WorkerKill ==
    /\ \E w \in DOMAIN wk :
          /\ wk[w].pc # "idle"
          /\ wk' = [wk EXCEPT ![w] = Idle]
          /\ started' = (started \ {JobOf(w)}) \cup {[JobOf(w) EXCEPT !.by = 0]}
    /\ Forget
    /\ UNCHANGED <<call, retryAsk, delivery, apprVars, mergeCall, statusOptions, board, pollerVars, obsAway, trigCount,
                   disturbed, returned, streak, phase, queue, ledger>>

(* RQ's registry cleanup drops the ids of jobs whose worker is gone. *)
RegistryCleanup ==
    /\ \E j \in started : j.by = 0
    /\ started' = {j \in started : j.by # 0}
    /\ Forget
    /\ UNCHANGED <<call, retryAsk, delivery, apprVars, mergeCall, statusOptions, board, pollerVars, obsAway, trigCount,
                   disturbed, returned, streak, phase, queue, wk, ledger>>


(***************************************************************************)
(* The application (main.py, lifespan).                                    *)
(***************************************************************************)

(* Mutant: startup deletes the FAILED rows. *)
ResetFailedByDelete(rows) == SelectSeq(rows, LAMBDA r : r.status # "failed")

(* _reset_failed_job_records (lines 136-156). *)
ResetFailed(rows) ==
    [k \in DOMAIN rows |-> IF rows[k].status = "failed"
                           THEN [rows[k] EXCEPT !.status = "cancelled"]
                           ELSE rows[k]]

(* The application process goes away, and its poller with it. *)
AppStop ==
    /\ phase # "down"
    /\ phase' = "down"
    /\ seen_issues' = {}
    /\ left_ready' = {}
    /\ Forget
    /\ UNCHANGED <<call, retryAsk, delivery, apprVars, mergeCall, statusOptions, board, retry_issues, obsAway, trigCount,
                   disturbed, returned, streak, queue, started, wk, ledger>>

(* lifespan up to line 201: init_db, then the reset of the FAILED rows. *)
AppStart ==
    /\ phase = "down"
    /\ phase' = "recover"
    /\ ledger' = ResetFailed(ledger)
    /\ retryAsk' = [retryAsk EXCEPT !.coded = {<<p[1], p[2], TRUE>> : p \in @}]
    /\ Forget
    /\ UNCHANGED <<call, delivery, apprVars, mergeCall, statusOptions, board, pollerVars, obsAway, trigCount,
                   disturbed, returned, streak, queue, started, wk>>

(* in_progress (line 75). *)
InProgress(items) == {i \in IssuesOf(items) : Lower(items[i]) = "in progress"}

(* Mutant: the started registry is not consulted. *)
ActiveIssuesQueueOnly(q, reg) ==
    {q[k].arg : k \in {m \in DOMAIN q : q[m].fn = PROCESS_STORY}}

(* active_issues (lines 89-103). *)
ActiveIssues(q, reg) ==
    {q[k].arg : k \in {m \in DOMAIN q : q[m].fn = PROCESS_STORY}}
      \cup {j.arg : j \in {r \in reg : r.fn = PROCESS_STORY}}

(* The in-progress items the scan tries to move (lines 105-121). *)
Orphans(items, q, reg) == InProgress(items) \ ActiveIssues(q, reg)

(* _recover_interrupted_jobs (lines 66-133), then the poller is built and  *)
(* started (lines 251-256).  fetch: get_items returns or raises; rds: the  *)
(* queue can be read or not; bad: the items whose update_status raises.    *)
Recover ==
    /\ phase = "recover"
    /\ phase' = "polling"
    /\ seen_issues' = {}
    /\ left_ready' = {}
    /\ \E fetch \in FetchOutcomes, rds \in RedisOutcomes :
          IF fetch = "error" \/ (InProgress(board) # {} /\ rds = "down")
          THEN /\ board' = board
               /\ lastScan' = [ran |-> TRUE, ok |-> FALSE, failed |-> {},
                               moved |-> {}]
          ELSE \E bad \in SUBSET Orphans(board, queue, started) :
                  /\ board' = [i \in DOMAIN board |->
                                  IF i \in Orphans(board, queue, started) \ bad
                                  THEN OptionFor(statusOptions, "Ready")
                                  ELSE board[i]]
                  /\ lastScan' = [ran |-> TRUE, ok |-> TRUE, failed |-> bad,
                                  moved |-> Orphans(board, queue, started) \ bad]
    /\ lastTick' = NoTick
    /\ lastRun' = NoRun
    /\ UNCHANGED <<call, retryAsk, delivery, apprVars, mergeCall, statusOptions, retry_issues, obsAway, trigCount, disturbed,
                   returned, streak, queue, started, wk, ledger>>

(* starts the poller's task before the recovery scan *)
PollerRunningFromStart(ph) == ph # "down"

(* The poller's task exists: lifespan creates it (main.py lines 251-256)   *)
(* after it has awaited _recover_interrupted_jobs (line 217).              *)
PollerRunning(ph) == ph = "polling"

(* One iteration of the poller's loop: _poll with _on_trigger (main.py     *)
(* lines 219-233), which enqueues process_story or logs the failure.       *)
PollTick ==
    /\ PollerRunning(phase)
    /\ \E fetch \in FetchOutcomes, rds \in RedisOutcomes, enq \in CallOutcomes :
          LET ds == IF fetch = "error" THEN {} ELSE PollPick(board, rds)
          IN  /\ PollCore(fetch, rds)
              /\ queue' = IF ds # {} /\ enq = "ok"
                          THEN Append(queue, [fn |-> PROCESS_STORY,
                                              arg |-> CHOOSE d \in ds : TRUE])
                          ELSE queue
              /\ Len(queue') <= MaxQueue
              \* a dispatch that enqueues the issue and leaves its signal in
              \* the set answers the crash that pushed the signal
              /\ retryAsk' = [retryAsk EXCEPT
                                 !.answered =
                                    (@ \cup (IF /\ "answered" \in retryAsk.follow
                                                /\ enq = "ok"
                                             THEN ds ELSE {}))
                                        \cap retry_issues']
              /\ lastTick' = [ok |-> fetch = "ok",
                              full |-> fetch = "ok" /\ rds = "ok",
                              ds |-> ds, back |-> {}, cbRaised |-> FALSE,
                              escaped |-> PollEscapes(fetch, "ok", ds)]
    /\ lastRun' = IF lastRun.issue # 0 /\ lastRun.age = 0
                  THEN [lastRun EXCEPT !.age = 1] ELSE NoRun
    /\ lastScan' = NoScan
    /\ UNCHANGED <<call, delivery, apprVars, mergeCall, statusOptions, board, obsAway, trigCount, disturbed,
                   returned, streak, phase, started, wk, ledger>>

(* A person moves an item on the board. *)
HumanMove ==
    /\ \E i \in IssuesOf(board) :
         \E s \in {OptionFor(statusOptions, "Ready"),
                   OptionFor(statusOptions, "Todo")} :
            /\ s # board[i]
            /\ board' = [board EXCEPT ![i] = s]
            /\ retryAsk' = [retryAsk EXCEPT !.asked =
                               IF Lower(s) = TRIGGER_STATUS /\ i \in retryAsk.blocked
                               THEN @ \cup {i} ELSE @ \ {i}]
    /\ Forget
    /\ UNCHANGED <<call, delivery, apprVars, mergeCall, statusOptions, pollerVars, obsAway, trigCount, disturbed,
                   returned, streak, phase, queue, started, wk, ledger>>

(* Nothing runs yet: the stories are on the board, in "Todo". *)
Init ==
    /\ statusOptions = OptsTitle
    /\ board = [i \in 1..NumStories |-> "Todo"]
    /\ seen_issues = {}
    /\ left_ready = {}
    /\ retry_issues = {}
    /\ lastTick = NoTick
    /\ obsAway = {}
    /\ trigCount = [i \in 1..NumStories |-> 0]
    /\ disturbed = {}
    /\ returned = {}
    /\ streak = NoStreak
    /\ SystemIdle("down")

Next ==
    \/ AppStart \/ Recover \/ AppStop
    \/ PollTick \/ HumanMove \/ SignalExpire
    \/ TakeJob \/ Guard \/ Setup \/ MoveInProgress \/ Work
    \/ Deliver \/ Compress \/ GiveUp
    \/ WorkerKill \/ RegistryCleanup

Spec == Init /\ [][Next]_vars

(***************************************************************************)
(* The same system with its worker alive throughout, and with the history  *)
(* of the attempts that ran the coder: retries over crashes, dispatches    *)
(* and restarts of the application.                                        *)
(***************************************************************************)
InitStorm ==
    /\ statusOptions = OptsTitle
    /\ board = [i \in 1..NumStories |-> "Todo"]
    /\ seen_issues = {}
    /\ left_ready = {}
    /\ retry_issues = {}
    /\ lastTick = NoTick
    /\ obsAway = {}
    /\ trigCount = [i \in 1..NumStories |-> 0]
    /\ disturbed = {}
    /\ returned = {}
    /\ streak = NoStreak
    /\ mergeCall = NoMerge
    /\ delivery = NoDelivery
    /\ NoPulls
    /\ phase = "down"
    /\ queue = <<>>
    /\ started = {}
    /\ wk = [w \in Workers |-> Idle]
    /\ ledger = <<>>
    /\ lastRun = NoRun
    /\ lastScan = NoScan
    /\ retryAsk = [NoAsk EXCEPT !.follow = {"coded"}]
    /\ call = NoFn

NextStorm ==
    \/ AppStart \/ Recover \/ AppStop
    \/ PollTick \/ HumanMove
    \/ TakeJob \/ Guard \/ Setup \/ MoveInProgress \/ Work
    \/ Deliver \/ Compress \/ GiveUp

SpecStorm == InitStorm /\ [][NextStorm]_vars


(***************************************************************************)
(* The poller and a worker over a board of several stories, with the       *)
(* application up and the worker alive throughout: what a failed attempt   *)
(* leaves and what the following ticks make of it.                         *)
(***************************************************************************)
InitRetry ==
    /\ statusOptions = OptsTitle
    /\ board = [i \in 1..NumRetryStories |-> "Todo"]
    /\ seen_issues = {}
    /\ left_ready = {}
    /\ retry_issues = {}
    /\ lastTick = NoTick
    /\ obsAway = {}
    /\ trigCount = [i \in 1..NumRetryStories |-> 0]
    /\ disturbed = {}
    /\ returned = {}
    /\ streak = NoStreak
    /\ SystemIdle("polling")

(* Guard, while the table has room for the attempt's row. *)
GuardRetry == Guard /\ Len(ledger') <= MaxRetryJobs

NextRetry ==
    \/ PollTick \/ HumanMove
    \/ TakeJob \/ GuardRetry \/ Setup \/ MoveInProgress \/ Work
    \/ Deliver \/ Compress \/ GiveUp

SpecRetry == InitRetry /\ [][NextRetry]_vars

(***************************************************************************)
(* The poller and a worker over a board of one story, with the history of  *)
(* the dispatches that followed each recycle signal.                       *)
(***************************************************************************)
InitSignal ==
    /\ statusOptions = OptsTitle
    /\ board = [i \in 1..NumStories |-> "Todo"]
    /\ seen_issues = {}
    /\ left_ready = {}
    /\ retry_issues = {}
    /\ lastTick = NoTick
    /\ obsAway = {}
    /\ trigCount = [i \in 1..NumStories |-> 0]
    /\ disturbed = {}
    /\ returned = {}
    /\ streak = NoStreak
    /\ mergeCall = NoMerge
    /\ delivery = NoDelivery
    /\ NoPulls
    /\ phase = "polling"
    /\ queue = <<>>
    /\ started = {}
    /\ wk = [w \in Workers |-> Idle]
    /\ ledger = <<>>
    /\ lastRun = NoRun
    /\ lastScan = NoScan
    /\ retryAsk = [NoAsk EXCEPT !.follow = {"answered"}]
    /\ call = NoFn

SpecSignal == InitSignal /\ [][NextRetry]_vars

(***************************************************************************)
(* The poller and two workers over a board of one story: two               *)
(* process_story of the same issue can run at the same time.  It starts    *)
(* where two attempts of the issue have crashed while coding: two rows are *)
(* FAILED, the item is back in Ready, the second crash's recycle signal is *)
(* in the set and the issue is still in SeenState.                         *)
(***************************************************************************)
AfterTwoCrashes ==
    /\ board = [i \in 1..NumStories |-> "Ready"]
    /\ seen_issues = {1}
    /\ left_ready = {1}
    /\ retry_issues = {1}
    /\ ledger = <<[issue |-> 1, status |-> "failed"],
                  [issue |-> 1, status |-> "failed"]>>
    /\ queue = <<>>
    /\ started = {}

InitRace ==
    /\ statusOptions = OptsTitle
    /\ AfterTwoCrashes
    /\ lastTick = NoTick
    /\ obsAway = {}
    /\ trigCount = [i \in 1..NumStories |-> 0]
    /\ disturbed = {}
    /\ returned = {}
    /\ streak = NoStreak
    /\ mergeCall = NoMerge
    /\ delivery = NoDelivery
    /\ NoPulls
    /\ phase = "polling"
    /\ wk = [w \in 1..NumRaceWorkers |-> Idle]
    /\ lastRun = NoRun
    /\ lastScan = NoScan
    /\ retryAsk = NoAsk
    /\ call = NoFn

NextRace ==
    \/ PollTick \/ HumanMove
    \/ TakeJob \/ Guard \/ Setup \/ MoveInProgress \/ Work
    \/ Deliver \/ Compress \/ GiveUp

SpecRace == InitRace /\ [][NextRace]_vars


(***************************************************************************)
(* Properties of the pipeline's failure handling.                          *)
(***************************************************************************)

(* The process_story that just returned raised while the agent was being   *)
(* set up or run (after the branch was made), and every call of its        *)
(* handler went through.                                                   *)
CrashedWhileCoding(r) ==
    r.issue # 0 /\ r.ret = "error" /\ r.at = "code" /\ r.faults = {}

(* What such a run leaves on return: the item in Ready, the attempt's row  *)
(* failed, a recycle signal in the set.                                    *)
RolledBack(r) ==
    /\ IsReady(r.issue)
    /\ r.row \in DOMAIN ledger
    /\ ledger[r.row].status = "failed"
    /\ r.issue \in retry_issues

C5_HandlerRollsBackEveryCrash ==
    (lastRun.issue # 0 /\ lastRun.ret = "error" /\ lastRun.age = 0
       /\ lastRun.faults = {})
        => RolledBack(lastRun)


(* The rows of issue i with the given status. *)
RowsWith(i, st) ==
    {k \in DOMAIN ledger : ledger[k].issue = i /\ ledger[k].status = st}

(* Worker w leaves the entry of process_story by running it (it goes on or *)
(* returns), not by dying.                                                 *)
PassesGuard(w) ==
    /\ wk[w].pc = "guard"
    /\ wk'[w].pc # "guard"
    /\ wk'[w].pc = "idle" => lastRun'.issue = wk[w].issue

(* C6: when the table holds at least 3 failed rows of an issue,            *)
(* process_story for that issue returns status blocked from the retry      *)
(* guard: it creates no row, goes on to none of the stages that clone or   *)
(* run the agent, pushes no recycle signal, leaves the item in Blocked     *)
(* (if the board takes the move) and the summary of recent errors as a     *)
(* comment (if GitHub takes it), provided the database answers the guard.  *)
C6_ThreeFailuresBlock ==
    [][ \A w \in Workers :
          (/\ PassesGuard(w)
           /\ Cardinality(RowsWith(wk[w].issue, "failed")) >= 3
           /\ "db" \notin lastRun'.faults) =>
              /\ wk'[w] = Idle
              /\ lastRun'.ret = "blocked"
              /\ lastRun'.at = "guard"
              /\ lastRun'.row = 0
              /\ ledger' = ledger
              /\ retry_issues' = retry_issues
              /\ "move" \notin lastRun'.faults
                    => Lower(board'[wk[w].issue]) = "blocked"
              /\ "comment" \notin lastRun'.faults => lastRun'.said = "retries"
      ]_vars

(* The guard has just blocked an issue with three failed rows. *)
C6_Witness ==
    /\ lastRun.at = "guard"
    /\ lastRun.age = 0
    /\ lastRun.faults = {}
    /\ Cardinality(RowsWith(lastRun.issue, "failed")) = 3
    /\ Len(ledger) = 3
    /\ Lower(board[lastRun.issue]) = "blocked"

(* The issue has a pending or started process_story job. *)
HasLiveJob(i) ==
    \/ \E k \in DOMAIN queue : queue[k].fn = PROCESS_STORY /\ queue[k].arg = i
    \/ \E j \in started : j.fn = PROCESS_STORY /\ j.arg = i

C8_OneRunningRowPerIssue ==
    \A i \in IssuesOf(board) : Cardinality(RowsWith(i, "running")) <= 1

(* The application starts: lifespan runs its reset of the table. *)
Startup == phase = "down" /\ phase' = "recover"

(* C9 as stated: a row that has reached status failed is never modified or *)
(* removed by any step, startup included.                                  *)
C9_FailedRowsNeverChange ==
    [][ \A k \in DOMAIN ledger :
          ledger[k].status = "failed" =>
              k \in DOMAIN ledger' /\ ledger'[k] = ledger[k]
      ]_vars

(* C9, amended: a failed row is never removed, and never modified except   *)
(* by the application's startup, which changes the status of every failed  *)
(* row to cancelled.                                                       *)
C9_FailedRowsChangeOnlyAtStartup ==
    [][ \A k \in DOMAIN ledger :
          ledger[k].status = "failed" =>
              /\ k \in DOMAIN ledger'
              /\ ledger'[k] = IF Startup
                              THEN [ledger[k] EXCEPT !.status = "cancelled"]
                              ELSE ledger[k]
      ]_vars

(* The application has just started over a table with failed rows. *)
C9_Witness ==
    /\ phase = "recover"
    /\ \E k \in DOMAIN ledger : ledger[k].status = "cancelled"
    /\ \E k \in DOMAIN ledger : ledger[k].status = "running"


(***************************************************************************)
(* PRManager.rebase_merge (github/pr.py lines 142-266) over one pull       *)
(* request: its reviews, its base branch, what the GitHub merge call and   *)
(* the local git commands do, and whether a clone was handed in.           *)
(***************************************************************************)
ReviewStates == {"APPROVED", "CHANGES_REQUESTED", "COMMENTED"}
BaseRefs == {"main", "Main", "master", "MASTER", "develop", "feature/1-story"}
WorkDirs == {"none", "missing", "present"}
GitOutcomes == {"ok", "fetch", "checkout", "rebase", "timeout", "abort", "push",
                "merge"}

Reviews == UNION {[1..n -> ReviewStates] : n \in 0..MaxReviews}

(* is_approved (line 157). *)
IsApproved(reviews) == \E k \in DOMAIN reviews : reviews[k] = "APPROVED"

(* Mutant: only main is protected. *)
ProtectedBaseMainOnly(base) == Lower(base) = "main"

(* base.lower() in ("main", "master") (line 167). *)
ProtectedBase(base) == Lower(base) \in {"main", "master"}

Result(success, complex) == [success |-> success, complex |-> complex]

(* get_pull and get_reviews, which return or raise (lines 152-156), then   *)
(* the two checks (lines 157-172).                                         *)
MergeCheck ==
    /\ mergeCall.pc = "called"
    /\ mergeCall.job \in {"none", "merging"}
    /\ mergeCall' =
          IF mergeCall.pull = "raise"
          THEN [mergeCall EXCEPT !.pc = "raised"]
          ELSE IF ~IsApproved(mergeCall.reviews) \/ ProtectedBase(mergeCall.base)
          THEN [mergeCall EXCEPT !.pc = "returned", !.result = Result(FALSE, FALSE)]
          ELSE [mergeCall EXCEPT !.pc = "native"]
    /\ UNCHANGED <<call, delivery, apprVars, statusOptions, board, pollerVars, histVars, sysVars>>

(* Mutant: the failure of pr.merge escapes when there is no clone. *)
AfterApiFailureRaises(m) ==
    IF m.dir = "present" THEN [m EXCEPT !.pc = "local"]
    ELSE [m EXCEPT !.pc = "raised"]

(* The exception of pr.merge is caught and logged (lines 183-185); then    *)
(* the local rebase when a clone was handed in and exists, and else the    *)
(* complex failure (lines 187-198).                                        *)
AfterApiFailure(m) ==
    IF m.dir = "present" THEN [m EXCEPT !.pc = "local"]
    ELSE [m EXCEPT !.pc = "returned", !.result = Result(FALSE, TRUE)]

(* pr.merge(merge_method="rebase") and what follows it (lines 174-198). *)
MergeNative ==
    /\ mergeCall.pc = "native"
    /\ mergeCall' =
          LET m == [mergeCall EXCEPT !.calls = @ \cup {"native_merge"}]
          IN  IF mergeCall.api = "ok"
              THEN [m EXCEPT !.pc = "returned", !.result = Result(TRUE, FALSE)]
              ELSE AfterApiFailure(m)
    /\ UNCHANGED <<call, delivery, apprVars, statusOptions, board, pollerVars, histVars, sysVars>>

(* The git commands _local_rebase_merge runs when the command named by     *)
(* `git` is the first to fail (lines 209-266).                             *)
LocalCalls(git) ==
    CASE git = "fetch" -> {"git_fetch"}
      [] git = "checkout" -> {"git_fetch", "git_checkout"}
      [] git = "timeout" -> {"git_fetch", "git_checkout", "git_rebase"}
      [] git \in {"rebase", "abort"} ->
            {"git_fetch", "git_checkout", "git_rebase", "git_abort"}
      [] git = "push" -> {"git_fetch", "git_checkout", "git_rebase", "git_push"}
      [] OTHER -> {"git_fetch", "git_checkout", "git_rebase", "git_push",
                   "native_merge_again"}

(* The states the clone can be in afterwards.  "rebase": the rebase exits  *)
(* non-zero and is aborted (lines 228-233).  "abort": the abort fails too  *)
(* (its exit status is not looked at, its timeout goes to the except).     *)
(* "timeout": git rebase runs into its timeout of line 225; subprocess.run *)
(* kills it and raises TimeoutExpired, which the except of line 260 turns  *)
(* into a result with no abort run: the killed rebase had started or not.  *)
CloneAfter(git) ==
    CASE git = "abort" -> {"rebasing"}
      [] git = "timeout" -> {"clean", "rebasing"}
      [] OTHER -> {"clean"}

(* _local_rebase_merge (lines 200-266). *)
MergeLocal ==
    /\ mergeCall.pc = "local"
    /\ \E c \in CloneAfter(mergeCall.git) :
          mergeCall' = [mergeCall EXCEPT
                           !.pc = "returned",
                           !.calls = @ \cup LocalCalls(mergeCall.git),
                           !.clone = c,
                           !.result = Result(mergeCall.git = "ok", TRUE)]
    /\ UNCHANGED <<call, delivery, apprVars, statusOptions, board, pollerVars, histVars, sysVars>>

(***************************************************************************)
(* merge_approved_pr (jobs/worker.py lines 590-663), the job around        *)
(* rebase_merge.                                                           *)
(***************************************************************************)

(* What can raise before rebase_merge is called: get_pr (line 618), or     *)
(* _clone_repo when the work directory does not exist (lines 622-624).     *)
PrepOutcomes == {"ok", "init_db", "get_pr", "clone"}

(* The keys of the dict merge_approved_pr returns from its try (lines      *)
(* 650-655) and from its except (lines 659-663).                           *)
ResultKeys == {"pr_number", "status", "complex", "message"}
ErrorKeys == {"pr_number", "status", "error"}

(* Lines 609-626: init_db, outside the try, then the job reads the request *)
(* and sees to a clone.                                                    *)
JobPrepare ==
    /\ mergeCall.job = "start"
    /\ mergeCall' =
          IF mergeCall.prep = "init_db"
          THEN [mergeCall EXCEPT !.job = "raised"]
          ELSE IF \/ mergeCall.prep = "get_pr"
                  \/ (mergeCall.prep = "clone" /\ mergeCall.dir = "missing")
          THEN [mergeCall EXCEPT !.job = "done", !.status = "error",
                                 !.keys = ErrorKeys]
          ELSE [mergeCall EXCEPT !.job = "merging", !.dir = "present"]
    /\ UNCHANGED <<call, delivery, apprVars, statusOptions, board, pollerVars, histVars, sysVars>>

(* Mutant: every failed merge asks for a new review. *)
RequestsReviewOnAnyFailure(res) == ~res.success

(* The branch that comments on the request (lines 628-646). *)
RequestsReview(res) == ~res.success /\ res.complex

(* Lines 628-663: the report on rebase_merge's result, or the except that  *)
(* turns any exception into status error.                                  *)
JobReport ==
    /\ mergeCall.job = "merging"
    /\ mergeCall.pc \in {"returned", "raised"}
    /\ mergeCall' =
          IF mergeCall.pc = "raised"
          THEN [mergeCall EXCEPT !.job = "done", !.status = "error",
                                 !.keys = ErrorKeys]
          ELSE IF RequestsReview(mergeCall.result)
          THEN IF mergeCall.note = "ok"
               THEN [mergeCall EXCEPT !.job = "done", !.commented = TRUE,
                                      !.status = "failed", !.keys = ResultKeys]
               ELSE [mergeCall EXCEPT !.job = "done", !.status = "error",
                                      !.keys = ErrorKeys]
          ELSE [mergeCall EXCEPT !.job = "done",
                                 !.status = IF mergeCall.result.success
                                            THEN "merged" ELSE "failed",
                                 !.keys = ResultKeys]
    /\ UNCHANGED <<call, delivery, apprVars, statusOptions, board, pollerVars, histVars, sysVars>>

(* A pull request and what its merge will run into. *)
MergeInputs ==
    [pc : {"called"}, pull : CallOutcomes, reviews : Reviews,
     base : BaseRefs, api : CallOutcomes, dir : WorkDirs,
     git : GitOutcomes, clone : {"clean"},
     calls : {{}}, result : {Result(FALSE, FALSE)},
     job : {"none", "start"}, prep : PrepOutcomes, note : CallOutcomes,
     commented : {FALSE}, status : {""}, keys : {{}}]

(* rebase_merge is called on some pull request, by itself or, with a       *)
(* work directory, by the job merge_approved_pr.                           *)
InitMerge ==
    /\ statusOptions = OptsTitle
    /\ board = <<>>
    /\ seen_issues = {}
    /\ left_ready = {}
    /\ retry_issues = {}
    /\ lastTick = NoTick
    /\ obsAway = {}
    /\ trigCount = <<>>
    /\ disturbed = {}
    /\ returned = {}
    /\ streak = NoStreak
    /\ phase = "down"
    /\ queue = <<>>
    /\ started = {}
    /\ wk = [w \in Workers |-> Idle]
    /\ ledger = <<>>
    /\ lastRun = NoRun
    /\ lastScan = NoScan
    /\ retryAsk = NoAsk
    /\ call = NoFn
    /\ NoPulls
    /\ delivery = NoDelivery
    /\ mergeCall \in {m \in MergeInputs :
                         IF m.job = "none"
                         THEN m.prep = "ok" /\ m.note = "ok"
                         ELSE m.dir # "none"}

NextMerge == MergeCheck \/ MergeNative \/ MergeLocal \/ JobPrepare \/ JobReport

SpecMerge == InitMerge /\ [][NextMerge]_vars

(* C10: rebase_merge invokes GitHub's merge only if the pull request has   *)
(* at least one APPROVED review and its base branch is not main or master; *)
(* when either fails (the request and its reviews having been read) it     *)
(* returns success=false, complex=false at once, with no merge call and no *)
(* local git command.                                                      *)
C10_MergeOnlyApprovedUnprotected ==
    LET ok == /\ \E k \in DOMAIN mergeCall.reviews : mergeCall.reviews[k] = "APPROVED"
              /\ mergeCall.base \notin {"main", "master"}
    IN  /\ (mergeCall.calls \cap {"native_merge", "native_merge_again"} # {}) => ok
        /\ (~ok /\ mergeCall.pull = "ok" /\ mergeCall.pc # "called") =>
              /\ mergeCall.pc = "returned"
              /\ mergeCall.result = Result(FALSE, FALSE)
              /\ mergeCall.calls = {}

(* An approved pull request into master has been refused. *)
C10_Witness ==
    /\ mergeCall.pc = "returned"
    /\ mergeCall.base = "master"
    /\ mergeCall.reviews = <<"COMMENTED", "APPROVED">>
    /\ mergeCall.api = "ok"
    /\ mergeCall.result = Result(FALSE, FALSE)
    /\ mergeCall.calls = {}

(* C11: when GitHub's rebase merge fails and no clone is available (none   *)
(* handed in, or its directory does not exist), rebase_merge returns       *)
(* success=false, complex=true and does not raise; it runs no git command. *)
C11_NoCloneReturnsComplex ==
    ("native_merge" \in mergeCall.calls /\ mergeCall.api = "raise"
       /\ mergeCall.dir \in {"none", "missing"})
        => /\ mergeCall.pc = "returned"
           /\ mergeCall.result = Result(FALSE, TRUE)
           /\ mergeCall.calls = {"native_merge"}

(* The merge of an approved request into develop failed, and the clone's   *)
(* directory does not exist.                                               *)
C11_Witness ==
    /\ mergeCall.pc = "returned"
    /\ mergeCall.api = "raise"
    /\ mergeCall.dir = "missing"
    /\ mergeCall.base = "develop"
    /\ mergeCall.calls = {"native_merge"}
    /\ mergeCall.result = Result(FALSE, TRUE)


(* C12 as stated: whenever rebase_merge returns after taking the local     *)
(* rebase fallback, whatever the git steps did, the clone is not left with *)
(* a rebase in progress.                                                   *)
C12_LocalRebaseLeavesNoRebase ==
    (mergeCall.pc = "returned" /\ "git_fetch" \in mergeCall.calls)
        => mergeCall.clone = "clean"


(* rebase_merge returned success=false, complex=true to the job. *)
ComplexFailure ==
    mergeCall.pc = "returned" /\ mergeCall.result = Result(FALSE, TRUE)

(* C13 as stated: merge_approved_pr comments on the request exactly when   *)
(* the merge failed on a conflict or failed otherwise (the job's status    *)
(* error included), and never when it succeeded, was not approved or       *)
(* targets a protected branch; the comment call itself going through.      *)
C13_ReviewRequestedOnEveryOtherFailure ==
    (mergeCall.job = "done" /\ mergeCall.note = "ok") =>
        (mergeCall.commented <=> (ComplexFailure \/ mergeCall.status = "error"))

(* C13, amended: merge_approved_pr comments on the request only when       *)
(* rebase_merge returned success=false, complex=true, and then always      *)
(* unless the comment call raises; it does not comment on success, on a    *)
(* request that is not approved or targets main/master, nor when the job   *)
(* ends with status error.                                                 *)
C13_ReviewRequestedOnComplexFailure ==
    mergeCall.job = "done" =>
        /\ mergeCall.commented => (ComplexFailure /\ mergeCall.status = "failed")
        /\ (ComplexFailure /\ mergeCall.note = "ok") => mergeCall.commented
        /\ mergeCall.status = "error" => ~mergeCall.commented

(* The job has asked for a new review after a rebase conflict. *)
C13_Witness ==
    /\ mergeCall.job = "done"
    /\ mergeCall.commented
    /\ mergeCall.git = "rebase"
    /\ "git_abort" \in mergeCall.calls
    /\ mergeCall.status = "failed"


(***************************************************************************)
(* GitHubPoller.start: the loop of one process, each iteration a _poll, a  *)
(* _poll_pr_approvals and a sleep (poller.py lines 73-93), with the        *)
(* callbacks main.py gives it (lines 219-249).                             *)
(***************************************************************************)
NumPulls == 2
NumLoopIssues == 1
Pulls == 1..NumPulls
BASE_BRANCH == "develop"
PullBases == {BASE_BRANCH, "feature/1-story"}

(* repo.get_pulls(state="open", base=sambot_base_branch): the open pull    *)
(* requests that target the base branch, the newest first (line 210).      *)
OpenPulls(ps) ==
    SelectSeq([k \in 1..NumPulls |-> NumPulls + 1 - k],
              LAMBDA p : ps[p].open /\ ps[p].base = BASE_BRANCH)

(* What an approval scan can meet: every query answers, get_pulls raises,  *)
(* or get_reviews raises on one pull request.                              *)
ScanOutcomes ==
    {[raises |-> "none", at |-> 0], [raises |-> "pulls", at |-> 0]}
        \cup [raises : {"reviews"}, at : Pulls]

(* The scan raised: get_pulls did, or get_reviews did on a pull request    *)
(* the scan asked about (one not skipped at line 213).                     *)
ScanRaised(list, seen, scan) ==
    \/ scan.raises = "pulls"
    \/ /\ scan.raises = "reviews"
       /\ \E k \in 1..Len(list) : list[k] = scan.at /\ list[k] \notin seen

(* The pull requests whose reviews the scan read: those of the list it     *)
(* does not skip, up to the query that raised (lines 212-216).             *)
Fetched(list, seen, scan) ==
    IF scan.raises = "pulls"
    THEN {}
    ELSE {list[k] : k \in {n \in 1..Len(list) :
                             /\ list[n] \notin seen
                             /\ \A j \in 1..n :
                                   (scan.raises = "reviews" /\ list[j] = scan.at)
                                      => list[j] \in seen}}

(* The pull requests on which the scan saw an APPROVED review (line 218).  *)
ObservedApproved(ps, seen, scan) ==
    {p \in Fetched(OpenPulls(ps), seen, scan) : ps[p].approved}

(* remembers a pull request only when its callback returned *)
SeenAfterApprovalOnSuccess(seen, fired, cb) ==
    IF cb = "ok" THEN seen \cup fired ELSE seen

(* _seen_approved_prs after the scan: the pull request is added before its *)
(* callback is called (line 220), whatever the callback does then.         *)
SeenAfterApproval(seen, fired, cb) ==
    seen \cup fired

(* on_trigger as main.py defines it: the job is enqueued, or the enqueue   *)
(* raises and _on_trigger logs it (lines 219-233), or a callback raises.   *)
DispatchOutcomes == {"ok", "enqueue", "raise"}
LoopKinds == {"board", "callback", "approvals", "pr_callback"}

(* lets the exception of a scan leave start() *)
AfterScanUncaught(l, next, escaped) ==
    IF escaped # {}
    THEN [l EXCEPT !.pc = "crashed"]
    ELSE [l EXCEPT !.pc = next]

(* skips the approval scan of an iteration whose _poll handed an item over *)
AfterScanOneActivity(l, next, escaped) ==
    IF next = "approvals" /\ l.promoted # {}
    THEN [l EXCEPT !.pc = "sleep"]
    ELSE [l EXCEPT !.pc = next]

(* start() after one of its two scans: what escaped the scan is logged and *)
(* the iteration goes on (lines 80-90).                                    *)
AfterScan(l, next, escaped) ==
    [l EXCEPT !.pc = next]

NoApproval == [ran |-> FALSE, observed |-> {}, fired |-> {}, cb |-> ""]

(* The _poll of an iteration (lines 81-84, 111-197), given what get_items, *)
(* Redis and on_trigger do.                                                *)
LoopPollWith(fetch, rds, cb) ==
    /\ loop.pc = "poll"
    /\   LET ds == IF fetch = "error" THEN {} ELSE PollPick(board, rds)
              \* get_items raising leaves _poll; what on_trigger raises is
              \* caught inside it (lines 187-194)
              escaped == PollEscapes(fetch, cb, ds)
              caught == IF ds # {} /\ cb = "raise" THEN {"callback"} ELSE {}
              l == [loop EXCEPT !.handed = IF cb = "ok" THEN @ \cup ds ELSE @,
                                !.tried = @ \cup ds,
                                !.promoted = IF cb = "ok" THEN ds ELSE {},
                                !.raised = escaped \cup caught]
          IN  /\ PollCore(fetch, rds)
              /\ loop' = AfterScan(l, "approvals", escaped)
              /\ apprHist' = [apprHist EXCEPT !.last = NoApproval]
    /\ UNCHANGED <<call, delivery, prs, seen_approved_prs, mergeCall, statusOptions, board,
                   histVars, sysVars>>

LoopPoll ==
    \E fetch \in FetchOutcomes, rds \in RedisOutcomes, cb \in DispatchOutcomes :
        LoopPollWith(fetch, rds, cb)

(* A _poll in which the board, Redis and the queue all answer. *)
LoopPollServed == LoopPollWith("ok", "ok", "ok")

(* The _poll_pr_approvals of an iteration (lines 86-90, 199-227). *)
LoopApprovals ==
    /\ loop.pc = "approvals"
    /\ \E scan \in ScanOutcomes, cb \in DispatchOutcomes :
          LET list == OpenPulls(prs)
              observed == ObservedApproved(prs, seen_approved_prs, scan)
              fired == observed
              \* the scan catches what its queries and its callback raise
              \* (lines 222-227): nothing escapes it
              caught == (IF ScanRaised(list, seen_approved_prs, scan)
                         THEN {"approvals"} ELSE {})
                           \cup (IF fired # {} /\ cb = "raise"
                                 THEN {"pr_callback"} ELSE {})
              l == [loop EXCEPT !.raised = @ \cup caught]
          IN  /\ seen_approved_prs' = SeenAfterApproval(seen_approved_prs, fired, cb)
              /\ loop' = AfterScan(l, "sleep", {})
              /\ apprHist' = [ever |-> apprHist.ever \cup observed,
                              count |-> [p \in Pulls |->
                                           IF p \in fired
                                           THEN Bump(apprHist.count[p])
                                           ELSE apprHist.count[p]],
                              last |-> [ran |-> TRUE, observed |-> observed,
                                        fired |-> fired, cb |-> cb]]
    /\ UNCHANGED <<call, delivery, prs, mergeCall, statusOptions, board, pollerVars, histVars, sysVars>>

(* The sleep of an iteration and the test of _running that follows it      *)
(* (lines 79, 92).                                                         *)
LoopSleep ==
    /\ loop.pc = "sleep"
    /\ loop' = [loop EXCEPT !.pc = IF loop.running THEN "poll" ELSE "stopped",
                            !.promoted = {}]
    /\ apprHist' = [apprHist EXCEPT !.last = NoApproval]
    /\ UNCHANGED <<call, delivery, prs, seen_approved_prs, mergeCall, statusOptions, board,
                   pollerVars, histVars, sysVars>>

(* stop() (lines 95-98). *)
LoopStop ==
    /\ loop.running
    /\ loop' = [loop EXCEPT !.running = FALSE]
    /\ apprHist' = [apprHist EXCEPT !.last = NoApproval]
    /\ UNCHANGED <<call, delivery, prs, seen_approved_prs, mergeCall, statusOptions, board,
                   pollerVars, histVars, sysVars>>

(* Somebody moves an item of the board into or out of the trigger status. *)
BoardChange ==
    /\ \E i \in 1..NumLoopIssues, st \in {"Ready", "In progress"} :
          /\ board[i] # st
          /\ board' = [board EXCEPT ![i] = st]
          /\ loop' = [loop EXCEPT !.handed = IF st = "Ready" THEN @ ELSE @ \ {i},
                                  !.tried = IF st = "Ready" THEN @ ELSE @ \ {i}]
    /\ apprHist' = [apprHist EXCEPT !.last = NoApproval]
    /\ UNCHANGED <<call, delivery, prs, seen_approved_prs, mergeCall, statusOptions,
                   pollerVars, histVars, sysVars>>

(* A reviewer approves a pull request, or the approval is dismissed. *)
PullReview ==
    /\ \E p \in Pulls : prs' = [prs EXCEPT ![p].approved = ~@]
    /\ apprHist' = [apprHist EXCEPT !.last = NoApproval]
    /\ UNCHANGED <<call, delivery, seen_approved_prs, loop, mergeCall, statusOptions, board,
                   pollerVars, histVars, sysVars>>

(* A pull request is closed (merged or not) or reopened. *)
PullChange ==
    /\ \E p \in Pulls : prs' = [prs EXCEPT ![p].open = ~@]
    /\ apprHist' = [apprHist EXCEPT !.last = NoApproval]
    /\ UNCHANGED <<call, delivery, seen_approved_prs, loop, mergeCall, statusOptions, board,
                   pollerVars, histVars, sysVars>>

InitLoop ==
    /\ statusOptions = OptsTitle
    /\ board \in [1..NumLoopIssues -> {"Ready", "In progress"}]
    /\ seen_issues = {}
    /\ left_ready = {}
    /\ retry_issues = {}
    /\ lastTick = NoTick
    /\ obsAway = {}
    /\ trigCount = [i \in 1..NumLoopIssues |-> 0]
    /\ disturbed = {}
    /\ returned = {}
    /\ streak = NoStreak
    /\ phase = "polling"
    /\ queue = <<>>
    /\ started = {}
    /\ wk = [w \in Workers |-> Idle]
    /\ ledger = <<>>
    /\ lastRun = NoRun
    /\ lastScan = NoScan
    /\ retryAsk = NoAsk
    /\ call = NoFn
    /\ mergeCall = NoMerge
    /\ delivery = NoDelivery
    /\ prs \in [Pulls -> [open : {TRUE}, base : PullBases, approved : {FALSE}]]
    /\ seen_approved_prs = {}
    /\ loop = [pc |-> "poll", running |-> TRUE, raised |-> {}, handed |-> {},
               tried |-> {}, promoted |-> {}]
    /\ apprHist = [ever |-> {}, count |-> [p \in Pulls |-> 0], last |-> NoApproval]

LoopStep == LoopPoll \/ LoopApprovals \/ LoopSleep

NextLoop ==
    \/ LoopPoll
    \/ LoopApprovals
    \/ LoopSleep
    \/ LoopStop
    \/ BoardChange
    \/ PullReview
    \/ PullChange

SpecLoop == InitLoop /\ [][NextLoop]_vars

(* The event loop keeps running the poller's task: a step of the loop that *)
(* stays possible is taken.                                                *)
SpecLoopFair == SpecLoop /\ WF_vars(LoopStep)

(* Moreover the services do not fail for ever: a _poll in which they all   *)
(* answer happens again and again while the loop runs.                     *)
SpecLoopServed == SpecLoopFair /\ SF_vars(LoopPollServed)


(***************************************************************************)
(* C14: over the ticks of one process, the merge callback is invoked for   *)
(* an open pull request that targets the base branch on the tick that      *)
(* first observes an APPROVED review on it, and never again, whether the   *)
(* callback returned or raised: a tick fires the callback for exactly the  *)
(* pull requests it observed approved, and a pull request some tick has    *)
(* observed approved has had exactly one invocation.                       *)
(***************************************************************************)
C14_MergeCallbackOncePerApprovedPull ==
    /\ \A p \in Pulls : /\ apprHist.count[p] <= 1
                        /\ apprHist.count[p] = 1 <=> p \in apprHist.ever
    /\ apprHist.last.ran => apprHist.last.fired = apprHist.last.observed

(* A tick whose callback raised for pull request 2 while pull request 1,   *)
(* fired by an earlier tick, is still open and approved.                   *)
C14_Witness ==
    /\ apprHist.last.ran
    /\ apprHist.last.fired = {2}
    /\ apprHist.last.cb = "raise"
    /\ apprHist.count[1] = 1
    /\ prs[1].open /\ prs[1].approved /\ prs[1].base = BASE_BRANCH


(***************************************************************************)
(* C15: an exception raised by a board query, an approval query or a       *)
(* callback during a tick never ends the loop of the poller: no exception  *)
(* leaves start(), every tick that began reaches its sleep, and after the  *)
(* sleep a next tick begins unless stop() was called.                      *)
(***************************************************************************)
C15_ExceptionsNeverEndTheLoop ==
    /\ [](loop.pc # "crashed")
    /\ (loop.pc \in {"poll", "approvals"}) ~> (loop.pc = "sleep")
    /\ (loop.pc = "sleep" /\ loop.running) ~> (loop.pc = "poll" \/ ~loop.running)

(* The next tick is about to run after an iteration in which the board     *)
(* query, an approval query and the merge callback all raised.             *)
C15_Witness ==
    /\ loop.pc = "poll"
    /\ loop.running
    /\ loop.raised = LoopKinds \ {"callback"}


(***************************************************************************)
(* C16: every issue that remains in the trigger status is eventually       *)
(* handed to the work queue (a process_story job is enqueued for it), even *)
(* when an earlier enqueue or the dispatch callback failed, as long as the *)
(* poller is not stopped.                                                  *)
(***************************************************************************)
C16_ReadyIssueEventuallyEnqueued ==
    \A i \in 1..NumLoopIssues :
        (Lower(board[i]) = TRIGGER_STATUS)
            ~> (i \in loop.handed \/ Lower(board[i]) # TRIGGER_STATUS \/ ~loop.running)


(***************************************************************************)
(* The delivery of a story the agent completed (worker.py lines 459-484):  *)
(* _commit_and_push of the story's branch, then create_pr.                 *)
(***************************************************************************)
BranchNames ==
    {"develop", "Develop", "main", "MAIN", "master", "feature/1-story", "bug/2-crash"}
DefaultBases == {"develop", "main", "Master"}
NoBase == ""
StackHeads == {NoBase, "feature/1-story", "main", "MASTER"}

(* The git command of _commit_and_push that fails, if one does. *)
CommitOutcomes == {"ok", "add", "commit", "push"}

(* refuses main and master only *)
PushRefusedMainOnly(branch) == Lower(branch) \in {"main", "master"}

(* The test of line 191: the branch is one _commit_and_push refuses. *)
PushRefused(branch) == Lower(branch) \in {"develop", "main", "master"}

(* _commit_and_push (lines 164-199): the git commands it runs and how it   *)
(* ends; changes: something is staged after `git add -A`.                  *)
CommitAndPush(branch, changes, git) ==
    IF git = "add"
    THEN [calls |-> {"add"}, ends |-> "CalledProcessError"]
    ELSE IF ~changes
    THEN [calls |-> {"add", "diff"}, ends |-> "returned"]
    ELSE IF git = "commit"
    THEN [calls |-> {"add", "diff", "commit"}, ends |-> "CalledProcessError"]
    ELSE IF PushRefused(branch)
    THEN [calls |-> {"add", "diff", "commit"}, ends |-> "ValueError"]
    ELSE [calls |-> {"add", "diff", "commit", "push"},
          ends |-> IF git = "push" THEN "CalledProcessError" ELSE "returned"]

(* determine_base_branch (pr.py lines 61-105); stack: the head of the      *)
(* newest open pull request that targets the default base and whose branch *)
(* still exists, NoBase when there is none or a query raises.              *)
DetermineBase(stack, default) == IF stack # NoBase THEN stack ELSE default

(* The base the Pipeline passes to create_pr (worker.py line 477). *)
PrTarget(base_branch, default) ==
    IF base_branch # default THEN base_branch ELSE NoBase

(* `base_branch or self._base_branch` (pr.py line 122). *)
EffectiveTarget(given, default) == IF given # NoBase THEN given ELSE default

(* compares the name as written *)
ProtectedTargetExact(target) == target \in {"main", "master"}

(* The test of pr.py line 125. *)
ProtectedTarget(target) == Lower(target) \in {"main", "master"}

(* create_pr (pr.py lines 107-140): whether a pull request is opened, on   *)
(* which base, and how the call ends.                                      *)
CreatePr(given, default, api) ==
    LET target == EffectiveTarget(given, default)
    IN  IF ProtectedTarget(target)
        THEN [opened |-> FALSE, base |-> NoBase, ends |-> "ValueError"]
        ELSE IF api = "raise"
        THEN [opened |-> FALSE, base |-> NoBase, ends |-> "GithubException"]
        ELSE [opened |-> TRUE, base |-> target, ends |-> "returned"]

NoCall == [calls |-> {}, ends |-> ""]
NoPr == [opened |-> FALSE, base |-> NoBase, ends |-> ""]

(* _create_feature_branch (lines 121-161): git checkout -b from origin/base;
   when that fails and base is not the default base, from origin/default.
   tracked: the clone has the remote-tracking ref of base (the clone of line
   420 has fetched the default base). *)
CreateFeatureBranch(base, default, tracked) ==
    IF base = default \/ tracked THEN base ELSE default

(* Lines 423-425: determine_base_branch, then _create_feature_branch on the
   clone made at line 420. *)
DeliverBranch ==
    /\ delivery.pc = "branch"
    /\ LET base_branch == DetermineBase(delivery.stack, delivery.default)
       IN  delivery' = [delivery EXCEPT
                           !.from = CreateFeatureBranch(base_branch, delivery.default,
                                                        delivery.tracked),
                           !.pc = "push"]
    /\ UNCHANGED <<call, apprVars, mergeCall, statusOptions, board, pollerVars, histVars, sysVars>>

(* Lines 462-465: _commit_and_push of the story's branch. *)
DeliverPush ==
    /\ delivery.pc = "push"
    /\ LET res == CommitAndPush(delivery.branch, delivery.changes, delivery.git)
       IN  delivery' = [delivery EXCEPT !.push = res,
                                        !.done = IF res.ends = "returned"
                                                 THEN Append(@, "push") ELSE @,
                                        !.pc = IF res.ends = "returned"
                                               THEN "describe" ELSE "raised"]
    /\ UNCHANGED <<call, apprVars, mergeCall, statusOptions, board, pollerVars, histVars, sysVars>>

(* Lines 467-474: the completion service writes the description. *)
DeliverDescribe ==
    /\ delivery.pc = "describe"
    /\ \E llm \in CallOutcomes :
          delivery' = [delivery EXCEPT !.pc = IF llm = "ok" THEN "pr" ELSE "raised"]
    /\ UNCHANGED <<call, apprVars, mergeCall, statusOptions, board, pollerVars, histVars, sysVars>>

(* Lines 476-484: create_pr on the stacked base, or on none. *)
DeliverPr ==
    /\ delivery.pc = "pr"
    /\ LET base_branch == DetermineBase(delivery.stack, delivery.default)
           res == CreatePr(PrTarget(base_branch, delivery.default), delivery.default,
                           delivery.api)
       IN  \E n \in 1..NumPulls :
              delivery' = [delivery EXCEPT !.pr = res,
                                           !.number = IF res.ends = "returned" THEN n ELSE @,
                                           !.done = IF res.ends = "returned"
                                                    THEN Append(@, "pr") ELSE @,
                                           !.pc = IF res.ends = "returned"
                                                  THEN "opened" ELSE "raised"]
    /\ UNCHANGED <<call, apprVars, mergeCall, statusOptions, board, pollerVars, histVars, sysVars>>

(* Lines 408-414 and 488: _move_status("In review") looks the issue's item up
   on the board and updates its status; when the item is not on the board any
   more it only logs worker.item_not_found and returns. *)
DeliverMove ==
    /\ delivery.pc = "opened"
    /\ \E out \in CallOutcomes :
          delivery' = IF out # "ok"
                      THEN [delivery EXCEPT !.pc = "raised"]
                      ELSE [delivery EXCEPT !.pc = "seal",
                                            !.done = Append(@, "move"),
                                            !.moved = delivery.item # "",
                                            !.item = IF @ # "" THEN "In review" ELSE @]
    /\ UNCHANGED <<call, apprVars, mergeCall, statusOptions, board, pollerVars, histVars, sysVars>>

(* Lines 493-502: the row written when the story is delivered. *)
SealSuccessNoPr(number, branch) == [status |-> "success", pr |-> 0, branch |-> branch]

SealSuccess(number, branch) == [status |-> "success", pr |-> number, branch |-> branch]

(* Lines 492-502: the Job row is sealed SUCCESS with the PR number and branch. *)
DeliverSeal ==
    /\ delivery.pc = "seal"
    /\ \E db \in CallOutcomes :
          delivery' = IF db # "ok"
                      THEN [delivery EXCEPT !.pc = "raised"]
                      ELSE [delivery EXCEPT !.pc = "compress",
                                            !.done = Append(@, "seal"),
                                            !.row = SealSuccess(delivery.number,
                                                                delivery.branch)]
    /\ UNCHANGED <<call, apprVars, mergeCall, statusOptions, board, pollerVars, histVars, sysVars>>

(* Lines 504-518: memory compression, then the success return. *)
DeliverCompress ==
    /\ delivery.pc = "compress"
    /\ \E mem \in CallOutcomes :
          delivery' = IF mem # "ok"
                      THEN [delivery EXCEPT !.pc = "raised"]
                      ELSE [delivery EXCEPT !.pc = "returned",
                                            !.done = Append(@, "compress")]
    /\ UNCHANGED <<call, apprVars, mergeCall, statusOptions, board, pollerVars, histVars, sysVars>>

(* A person takes the story's item off the board while the pipeline runs. *)
DeliverItemRemoved ==
    /\ delivery.pc \in {"branch", "push", "describe", "pr", "opened"}
    /\ delivery.item # ""
    /\ delivery' = [delivery EXCEPT !.item = ""]
    /\ UNCHANGED <<call, apprVars, mergeCall, statusOptions, board, pollerVars, histVars, sysVars>>

NoRow == [status |-> "running", pr |-> 0, branch |-> ""]

DeliveryInputs ==
    [pc : {"branch"}, branch : BranchNames, changes : BOOLEAN, git : CommitOutcomes,
     stack : StackHeads, default : DefaultBases, api : CallOutcomes,
     tracked : BOOLEAN, from : {NoBase},
     push : {NoCall}, pr : {NoPr}, number : {0}, item : {"In progress"},
     moved : {FALSE}, row : {NoRow}, done : {<<>>}]

InitDeliver ==
    /\ statusOptions = OptsTitle
    /\ board = <<>>
    /\ seen_issues = {}
    /\ left_ready = {}
    /\ retry_issues = {}
    /\ lastTick = NoTick
    /\ obsAway = {}
    /\ trigCount = <<>>
    /\ disturbed = {}
    /\ returned = {}
    /\ streak = NoStreak
    /\ phase = "down"
    /\ queue = <<>>
    /\ started = {}
    /\ wk = [w \in Workers |-> Idle]
    /\ ledger = <<>>
    /\ lastRun = NoRun
    /\ lastScan = NoScan
    /\ retryAsk = NoAsk
    /\ call = NoFn
    /\ mergeCall = NoMerge
    /\ NoPulls
    /\ delivery \in DeliveryInputs

NextDeliver ==
    \/ DeliverBranch
    \/ DeliverPush
    \/ DeliverDescribe
    \/ DeliverPr
    \/ DeliverMove
    \/ DeliverSeal
    \/ DeliverCompress
    \/ DeliverItemRemoved

SpecDeliver == InitDeliver /\ [][NextDeliver]_vars


(***************************************************************************)
(* C17: _commit_and_push never runs git push for a branch named develop,   *)
(* main or master in any letter case: when it comes to pushing such a      *)
(* branch it raises instead.                                               *)
(***************************************************************************)
C17_NeverPushesProtectedBranch ==
    Lower(delivery.branch) \in {"develop", "main", "master"} =>
        /\ "push" \notin delivery.push.calls
        /\ "commit" \in delivery.push.calls => delivery.push.ends # "returned"

(* The commit of branch Develop succeeded and the push was refused. *)
C17_Witness ==
    /\ delivery.branch = "Develop"
    /\ delivery.push.calls = {"add", "diff", "commit"}
    /\ delivery.push.ends = "ValueError"


(***************************************************************************)
(* C18: no pull request the Pipeline opens targets main or master: when    *)
(* the effective target (the given base, or the default base when none is  *)
(* given) is main or master in any letter case, create_pr raises and opens *)
(* nothing; otherwise the pull request targets the stacked base when the   *)
(* story is stacked and the default base when it is not.                   *)
(***************************************************************************)
C18_NoPullRequestTargetsPrimary ==
    LET stacked == delivery.stack # NoBase /\ delivery.stack # delivery.default
        target == IF stacked THEN delivery.stack ELSE delivery.default
    IN  /\ delivery.pr.opened =>
              /\ Lower(delivery.pr.base) \notin {"main", "master"}
              /\ delivery.pr.base = target
        /\ (delivery.pr.ends # "" /\ Lower(target) \in {"main", "master"}) =>
              /\ ~delivery.pr.opened
              /\ delivery.pr.ends = "ValueError"
        /\ (delivery.pr.ends # "" /\ Lower(target) \notin {"main", "master"}
              /\ delivery.api = "ok") => delivery.pr.opened

(* create_pr refused a story stacked on a pull request whose head is       *)
(* MASTER, after the story's branch was pushed.                            *)
C18_Witness ==
    /\ delivery.pc = "raised"
    /\ delivery.stack = "MASTER"
    /\ delivery.default = "develop"
    /\ "push" \in delivery.push.calls
    /\ delivery.pr.ends = "ValueError"


(***************************************************************************)
(* C19: process_story never lets an error reach the worker: whatever       *)
(* external call fails (database, board, issue service, git, completion    *)
(* service, Redis), the run ends by returning a result dict, not raising.  *)
(***************************************************************************)
C19_ProcessStoryAlwaysReturns ==
    lastRun.issue # 0 => lastRun.ret \in {"success", "blocked", "error"}


(***************************************************************************)
(* C20: a protected-branch refusal raised inside the Pipeline (a push to a *)
(* protected name, a pull request that targets main or master) is not      *)
(* retried: the run that met it neither moves the item back to the trigger *)
(* status nor pushes a recycle signal.                                     *)
(***************************************************************************)
C20_PolicyViolationNotRetried ==
    [][ (lastRun'.at = "policy" /\ lastRun'.age = 0 /\ lastRun' # lastRun) =>
            /\ board' = board
            /\ retry_issues' = retry_issues
      ]_vars


(***************************************************************************)
(* C21: after the retry guard blocked an issue, a person who moves the     *)
(* item back to the trigger status gets a retry: the process_story run     *)
(* that then reaches the guard for the issue passes it and goes on to a    *)
(* new attempt (it creates the attempt's row), when the database answers.  *)
(***************************************************************************)
C21_HumanMoveBackGetsNewAttempt ==
    [][ \A w \in Workers :
          (/\ PassesGuard(w)
           /\ wk[w].issue \in retryAsk.asked
           /\ "db" \notin lastRun'.faults) =>
              /\ wk'[w].pc = "setup"
              /\ Len(ledger') = Len(ledger) + 1
      ]_vars


(***************************************************************************)
(* C22: at process start the poller does nothing before the recovery scan  *)
(* has finished: while the application is down or its scan has not         *)
(* returned, no step is a tick, none enqueues a job, and none adds to what *)
(* the poller has seen.                                                    *)
(***************************************************************************)
C22_NoTickBeforeRecoveryFinished ==
    [][ (phase # "polling" /\ phase' # "polling") =>
            /\ lastTick' = NoTick
            /\ Len(queue') <= Len(queue)
            /\ seen_issues' \subseteq seen_issues
            /\ left_ready' \subseteq left_ready
      ]_vars

(* The scan of a starting process has just moved an orphan back to Ready:  *)
(* nothing is enqueued and the new poller has seen nothing.                *)
C22_Witness ==
    /\ phase = "polling"
    /\ lastScan.ran
    /\ lastScan.moved = {1}
    /\ queue = <<>>
    /\ seen_issues = {}


(***************************************************************************)
(* C23: every invocation of merge_approved_pr returns, without raising, a  *)
(* dict that has the keys status, complex and message, whatever happened   *)
(* inside it.                                                              *)
(***************************************************************************)
C23_MergeJobReturnsFullResult ==
    mergeCall.job \in {"done", "raised"} =>
        /\ mergeCall.job = "done"
        /\ {"status", "complex", "message"} \subseteq mergeCall.keys


(***************************************************************************)
(* Two functions called on their own: ProjectsClient.update_status on an   *)
(* item of a board, and PRManager.create_branch_name.                      *)
(***************************************************************************)
MaxTail == 3
PadLen == 38
SLUG_MAX == 40

StatusNames == {"Ready", "ready", "READY", "In progress", "in Progress", "Blocked",
                "Done", ""}

(* update_status (projects.py lines 322-356) on an item whose Status is    *)
(* cur: how it ends, whether the mutation was sent, the item's Status      *)
(* afterwards.  api: the GraphQL call returns or raises.                   *)
UpdateStatus(opts, cur, name, api) ==
    LET option == OptionFor(opts, name)
    IN  IF option = ""
        THEN [ends |-> "ValueError", sent |-> FALSE, status |-> cur]
        ELSE IF api = "raise"
        THEN [ends |-> "GraphQLError", sent |-> TRUE, status |-> cur]
        ELSE [ends |-> "returned", sent |-> TRUE, status |-> option]

(* The characters of the titles, one of each kind slugify tells apart: a   *)
(* lower-case letter, an upper-case one, a digit, whitespace, underscore,  *)
(* hyphen, anything else.                                                  *)
TitleChars == {"a", "B", "7", " ", "_", "-", "!"}

(* str.lower() on a character. *)
LowerChar(c) == IF c = "B" THEN "b" ELSE c

(* text.lower() (pr.py line 20). *)
LowerText(text) == [k \in 1..Len(text) |-> LowerChar(text[k])]

(* The characters [a-z0-9\s-] that line 21 keeps. *)
SlugKept == {"a", "b", "7", " ", "-"}

RECURSIVE DropWhile(_, _)
(* text without its leading characters of the class. *)
DropWhile(text, class) ==
    IF text # <<>> /\ Head(text) \in class
    THEN DropWhile(Tail(text), class) ELSE text

RECURSIVE Collapse(_, _, _)
(* re.sub(r"[class]+", to, text): every run of characters of the class     *)
(* becomes one `to` (lines 22-23).                                         *)
Collapse(text, class, to) ==
    IF text = <<>> THEN <<>>
    ELSE IF Head(text) \in class
    THEN <<to>> \o Collapse(DropWhile(text, class), class, to)
    ELSE <<Head(text)>> \o Collapse(Tail(text), class, to)

RECURSIVE RStrip(_, _)
(* text.rstrip(c). *)
RStrip(text, c) ==
    IF text # <<>> /\ text[Len(text)] = c
    THEN RStrip(SubSeq(text, 1, Len(text) - 1), c) ELSE text

(* text.strip(c) (line 24). *)
Strip(text, c) == RStrip(DropWhile(text, {c}), c)

(* slugify (pr.py lines 18-25). *)
Slugify(text) ==
    LET lowered == LowerText(text)
        kept == SelectSeq(lowered, LAMBDA c : c \in SlugKept)
        hyphened == Collapse(kept, {" ", "_"}, "-")
        single == Collapse(hyphened, {"-"}, "-")
        slug == Strip(single, "-")
    IN  RStrip(SubSeq(slug, 1, Min(SLUG_MAX, Len(slug))), "-")

LabelNames == {"bug", "Bug", "docs"}

(* The prefix create_branch_name chooses (line 41). *)
BranchPrefix(labels) ==
    IF \E l \in labels : Lower(l) = "bug" THEN "bug" ELSE "feature"

(* create_branch_name (lines 35-43): the parts of                          *)
(* f"{prefix}/{issue_number}-{slug}".                                      *)
CreateBranchName(number, title, labels) ==
    [prefix |-> BranchPrefix(labels), number |-> number, slug |-> Slugify(title)]

(* Titles short enough to enumerate, alone or after a run of letters that  *)
(* brings them to the limit of the slug's length.                          *)
Titles ==
    {pad \o tail : pad \in {<<>>, [k \in 1..PadLen |-> "a"]},
                   tail \in UNION {[1..n -> TitleChars] : n \in 0..MaxTail}}

StatusCalls ==
    [fn : {"update_status"}, pc : {"called"}, opts : {OptsTitle, OptsUpper},
     cur : {"Todo", "TODO", ""}, name : StatusNames, api : CallOutcomes,
     res : {[ends |-> "", sent |-> FALSE, status |-> ""]}]

BranchCalls ==
    [fn : {"create_branch_name"}, pc : {"called"}, number : {7},
     title : Titles, labels : SUBSET LabelNames,
     res : {[prefix |-> "", number |-> 0, slug |-> <<>>]}]

(* repo.get_pulls(state="open", base=..., sort="created", direction="desc")
   (pr.py line 76): the open pull requests that target `base`, newest first.
   Pull request numbers grow with the time of creation. *)
RECURSIVE NewestFirst(_)
NewestFirst(S) ==
    IF S = {} THEN <<>>
    ELSE LET top == CHOOSE p \in S : \A q \in S : q.number <= p.number
         IN  <<top>> \o NewestFirst(S \ {top})

GetPulls(pulls, base) ==
    NewestFirst({[number |-> n, head |-> pulls[n].head] :
                    n \in {k \in DOMAIN pulls : pulls[k].open /\ pulls[k].base = base}})

DetermineBaseBranchUnverified(pulls, default, branches, api) ==
    IF api = "pulls" \/ GetPulls(pulls, default) = <<>>
    THEN default
    ELSE Head(GetPulls(pulls, default)).head

(* determine_base_branch (pr.py lines 61-105).  branches: the branches on
   the remote; api: "pulls" when the query of the pull requests raises,
   "branch" when get_branch raises for another reason than a missing
   branch. *)
DetermineBaseBranch(pulls, default, branches, api) ==
    IF api = "pulls"
    THEN default
    ELSE LET open_prs == GetPulls(pulls, default)
         IN  IF open_prs = <<>>
             THEN default
             ELSE LET latest_pr == Head(open_prs)
                  IN  IF api = "branch" \/ latest_pr.head \notin branches
                      THEN default
                      ELSE latest_pr.head

PullHeads == {"feature/1-story", "bug/2-crash"}

BaseCalls ==
    [fn : {"determine_base_branch"}, pc : {"called"},
     pulls : [1..NumPulls -> [base : {"develop", "main"}, head : PullHeads,
                              open : BOOLEAN]],
     default : {"develop", "main"}, branches : SUBSET PullHeads,
     api : {"ok", "pulls", "branch"},
     res : {[ends |-> "", base |-> ""]}]

CallDetermineBaseBranch ==
    /\ call.fn = "determine_base_branch"
    /\ call.pc = "called"
    /\ call' = [call EXCEPT !.pc = "done",
                            !.res = [ends |-> "returned",
                                     base |-> DetermineBaseBranch(call.pulls, call.default,
                                                                  call.branches, call.api)]]
    /\ UNCHANGED <<statusOptions, board, pollerVars, histVars, sysVars, mergeCall,
                   apprVars, delivery>>

(* The local clone as _clone_repo and _create_feature_branch see it.
   exists: the work directory is there; op: the git operation in progress;
   head: the branch checked out ("detached" in the middle of a rebase, which
   was started on branch orig); modified, untracked: the working tree has
   modified tracked files, untracked or ignored files; develop, feature: the
   local branch of that name is absent ("none"), at the tip of the remote
   base ("fresh") or elsewhere ("stale"); tracking: where origin/develop of
   the clone stands; err: a git command run with check=True failed. *)
BASE == "develop"
FEATURE == "feature/1-story"

NoClone ==
    [exists |-> FALSE, op |-> "none", head |-> "", orig |-> "", modified |-> FALSE,
     untracked |-> FALSE, develop |-> "none", feature |-> "none",
     tracking |-> "stale", err |-> FALSE]

CloneStates ==
    {g \in [exists : {TRUE}, op : {"none", "rebase", "merge", "cherry-pick"},
            head : {BASE, FEATURE, "detached"}, orig : {BASE, FEATURE},
            modified : BOOLEAN, untracked : BOOLEAN,
            develop : {"none", "stale", "fresh"}, feature : {"none", "stale", "fresh"},
            tracking : {"stale", "fresh"}, err : {FALSE}] :
        /\ (g.head = "detached") => g.op = "rebase"
        /\ (g.head # "detached") => g.orig = g.head
        /\ (g.orig = BASE) => g.develop # "none"
        /\ (g.orig = FEATURE) => g.feature # "none"
        /\ (g.tracking = "stale") => g.develop # "fresh" /\ g.feature # "fresh"}

(* Lines 54-60: git rebase --abort, merge --abort, cherry-pick --abort; each
   ends the operation of its kind and fails, ignored, when there is none. *)
Abort(g, kind) ==
    IF g.op # kind THEN g
    ELSE [g EXCEPT !.op = "none", !.head = g.orig]

(* Lines 62-66: git checkout -f. *)
CheckoutForce(g) == [g EXCEPT !.modified = FALSE]

(* Lines 67-70 and 96-99: git clean. *)
Clean(g) == [g EXCEPT !.untracked = FALSE]

(* Lines 72-76: git fetch --all --prune. *)
Fetch(g) == [g EXCEPT !.tracking = "fresh"]

(* Lines 78-89: git checkout develop, which git refuses over a working tree
   whose files it would overwrite; when it fails, checkout -b develop
   origin/develop with check=True. *)
CheckoutBase(g) ==
    LET dirty == (g.modified \/ g.untracked) /\ g.head # BASE
    IN  IF g.develop # "none" /\ ~dirty
        THEN [g EXCEPT !.head = BASE, !.orig = BASE]
        ELSE IF g.develop = "none" /\ ~dirty
             THEN [g EXCEPT !.head = BASE, !.orig = BASE, !.develop = g.tracking]
             ELSE [g EXCEPT !.err = TRUE]

(* Lines 91-95: git reset --hard origin/develop, which also ends a merge or
   a cherry-pick in progress. *)
ResetHard(g) ==
    [g EXCEPT !.modified = FALSE,
              !.op = IF @ \in {"merge", "cherry-pick"} THEN "none" ELSE @,
              !.develop = IF g.head = BASE THEN g.tracking ELSE @,
              !.feature = IF g.head = FEATURE THEN g.tracking ELSE @]

(* Lines 100-107: git clone -b develop. *)
FreshClone ==
    [NoClone EXCEPT !.exists = TRUE, !.head = BASE, !.orig = BASE, !.develop = "fresh",
                    !.tracking = "fresh"]

(* _clone_repo (lines 35-118). *)
CloneRepo(g) ==
    IF ~g.exists THEN FreshClone
    ELSE LET aborted == Abort(Abort(Abort(g, "rebase"), "merge"), "cherry-pick")
             fetched == Fetch(Clean(CheckoutForce(aborted)))
             on_base == CheckoutBase(fetched)
         IN  IF on_base.err THEN on_base ELSE Clean(ResetHard(on_base))

DeleteBranchKept(g) == g

(* Lines 131-135: git branch -D of the feature branch's name, errors
   ignored; git refuses to delete the branch that is checked out. *)
DeleteBranch(g) ==
    IF g.feature # "none" /\ g.head # FEATURE THEN [g EXCEPT !.feature = "none"] ELSE g

(* _create_feature_branch (lines 121-161) on the default base: the stale
   branch is deleted, then git checkout -b from origin/develop, which fails
   when the branch exists; with the default base there is no fallback and
   the failure is raised (line 159). *)
CreateFromBase(g) ==
    LET g1 == DeleteBranch(g)
    IN  IF g1.feature # "none" \/ g1.op = "rebase"
        THEN [g1 EXCEPT !.err = TRUE]
        ELSE [g1 EXCEPT !.feature = g1.tracking, !.head = FEATURE, !.orig = FEATURE]

(* Lines 420-425 of process_story. *)
EnterPipeline(g) ==
    LET cloned == CloneRepo(g)
    IN  IF cloned.err THEN cloned ELSE CreateFromBase(cloned)

CloneCalls ==
    [fn : {"enter_pipeline"}, pc : {"called"}, clone : CloneStates \cup {NoClone},
     res : {NoClone}]

CallEnterPipeline ==
    /\ call.fn = "enter_pipeline"
    /\ call.pc = "called"
    /\ call' = [call EXCEPT !.pc = "done", !.res = EnterPipeline(call.clone)]
    /\ UNCHANGED <<statusOptions, board, pollerVars, histVars, sysVars, mergeCall,
                   apprVars, delivery>>

CallUpdateStatus ==
    /\ call.fn = "update_status"
    /\ call.pc = "called"
    /\ call' = [call EXCEPT !.pc = "done",
                            !.res = UpdateStatus(call.opts, call.cur, call.name,
                                                 call.api)]
    /\ UNCHANGED <<statusOptions, board, pollerVars, histVars, sysVars, mergeCall,
                   apprVars, delivery>>

CallCreateBranchName ==
    /\ call.fn = "create_branch_name"
    /\ call.pc = "called"
    /\ call' = [call EXCEPT !.pc = "done",
                            !.res = CreateBranchName(call.number, call.title,
                                                     call.labels)]
    /\ UNCHANGED <<statusOptions, board, pollerVars, histVars, sysVars, mergeCall,
                   apprVars, delivery>>

InitCalls ==
    /\ statusOptions = OptsTitle
    /\ board = <<>>
    /\ seen_issues = {}
    /\ left_ready = {}
    /\ retry_issues = {}
    /\ lastTick = NoTick
    /\ obsAway = {}
    /\ trigCount = <<>>
    /\ disturbed = {}
    /\ returned = {}
    /\ streak = NoStreak
    /\ phase = "down"
    /\ queue = <<>>
    /\ started = {}
    /\ wk = [w \in Workers |-> Idle]
    /\ ledger = <<>>
    /\ lastRun = NoRun
    /\ lastScan = NoScan
    /\ retryAsk = NoAsk
    /\ mergeCall = NoMerge
    /\ NoPulls
    /\ delivery = NoDelivery
    /\ (call \in StatusCalls \/ call \in BranchCalls \/ call \in BaseCalls
          \/ call \in CloneCalls)

NextCalls ==
    \/ CallUpdateStatus
    \/ CallCreateBranchName
    \/ CallDetermineBaseBranch
    \/ CallEnterPipeline

SpecCalls == InitCalls /\ [][NextCalls]_vars


(***************************************************************************)
(* C24: update_status matches the requested name against the board's       *)
(* options without regard to letter case and writes the option it found;   *)
(* for a name that matches no option it raises, sends no mutation and the  *)
(* item's Status stays what it was.                                        *)
(***************************************************************************)
C24_UpdateStatusMatchesOrRaises ==
    (call.fn = "update_status" /\ call.pc = "done") =>
        IF \E o \in call.opts : Lower(o) = Lower(call.name)
        THEN /\ call.res.sent
             /\ call.api = "ok" =>
                   /\ call.res.ends = "returned"
                   /\ call.res.status \in call.opts
                   /\ Lower(call.res.status) = Lower(call.name)
        ELSE /\ call.res.ends = "ValueError"
             /\ ~call.res.sent
             /\ call.res.status = call.cur

(* "Done", which the board does not have, was refused and the item is     *)
(* still in Todo.                                                          *)
C24_Witness ==
    /\ call.fn = "update_status"
    /\ call.pc = "done"
    /\ call.name = "Done"
    /\ call.cur = "Todo"
    /\ call.res.ends = "ValueError"
    /\ call.res.status = "Todo"


(***************************************************************************)
(* C25: when the dispatch callback raises during a tick, the exception     *)
(* does not leave _poll, the issue stays recorded as seen, and the tick    *)
(* dispatches no other item.                                               *)
(***************************************************************************)
C25_CallbackErrorStaysInsideTick ==
    lastTick.cbRaised =>
        /\ "callback" \notin lastTick.escaped
        /\ lastTick.ds \subseteq seen_issues
        /\ Cardinality(lastTick.ds) = 1

(* The callback raised for issue 2, the first on the board; issue 1 is in  *)
(* Ready too and was left for a later tick.                                *)
C25_Witness ==
    /\ lastTick.cbRaised
    /\ lastTick.ds = {2}
    /\ IsReady(1)
    /\ 1 \notin seen_issues

C27_BranchNameFromLabelsAndTitle ==
    (call.fn = "create_branch_name" /\ call.pc = "done") =>
        LET slug == call.res.slug
        IN  /\ call.res.prefix = IF \E l \in call.labels : l \in {"bug", "Bug"}
                                 THEN "bug" ELSE "feature"
            /\ call.res.number = call.number
            /\ Len(slug) <= SLUG_MAX
            /\ slug # <<>> => slug[1] # "-" /\ slug[Len(slug)] # "-"
            /\ \A k \in 1..Len(slug) : slug[k] \in {"a", "b", "7", "-"}
            /\ slug = Slugify(Collapse(call.title, {" ", "_"}, "-"))

(***************************************************************************)
(* C28: an iteration of the poller's loop does at most one of two things:  *)
(* it hands a ready item over, or it scans for new approvals; the scan     *)
(* never runs in an iteration whose _poll has handed an item over.         *)
(***************************************************************************)
C28_PromotesOrScansNeverBoth ==
    [][ (loop.pc = "approvals" /\ apprHist'.last.ran) => loop.promoted = {} ]_vars

(***************************************************************************)
(* C28 as amended: every iteration of the poller's loop does both, in this *)
(* order: one _poll, which hands over at most one ready item, then one     *)
(* scan for new approvals, whatever the _poll did; only then it sleeps.    *)
(***************************************************************************)
C28_PromotesThenScans ==
    [][ /\ (loop.pc = "poll" /\ loop'.pc # "poll") =>
              /\ loop'.pc = "approvals"
              /\ Cardinality(loop'.promoted) <= 1
        /\ (loop.pc = "approvals" /\ loop'.pc # "approvals") =>
              /\ loop'.pc = "sleep"
              /\ apprHist'.last.ran
              /\ loop'.promoted = loop.promoted
        /\ (loop.pc # "approvals" /\ loop'.pc = "approvals") => loop.pc = "poll"
        /\ (loop.pc # "sleep" /\ loop'.pc = "sleep") => loop.pc = "approvals" ]_vars

(* An iteration has handed issue 1 over and then fired the merge callback  *)
(* for an approval its scan found.                                         *)
C28_Witness ==
    /\ loop.pc = "sleep"
    /\ loop.promoted = {1}
    /\ apprHist.last.ran
    /\ apprHist.last.fired # {}
    /\ apprHist.last.cb = "ok"

(***************************************************************************)
(* C29: one crash of the pipeline (one rollback to the trigger status and  *)
(* one recycle signal) brings at most one more dispatch of the issue: once *)
(* a tick has enqueued the issue again and left its signal in the set (the *)
(* round trip had made it eligible), no later tick enqueues the issue on   *)
(* account of that signal.                                                 *)
(***************************************************************************)
C29_OneCrashOneMoreDispatch ==
    [][ \A i \in (retry_issues \ retry_issues') \cap lastTick'.ds :
           Len(queue') > Len(queue) => i \notin retryAsk.answered ]_vars

C31_SuccessRowStaysSuccess ==
    [][ \A w \in Workers :
           (wk[w].pc = "compress" /\ wk'[w] # wk[w]) =>
               /\ ledger'[wk[w].row].status = ledger[wk[w].row].status
               /\ board'[wk[w].issue] = board[wk[w].issue] ]_vars

(***************************************************************************)
(* C32: at any time at most one process_story job of an issue is pending   *)
(* in the queue or running on a live worker, also after the application    *)
(* and its poller have restarted (SeenState empty again) while a job of    *)
(* the issue is still queued and the item is still in the trigger status.  *)
(***************************************************************************)
C32_OneLiveJobPerIssue ==
    \A i \in IssuesOf(board) :
        Cardinality({k \in DOMAIN queue :
                        queue[k].fn = PROCESS_STORY /\ queue[k].arg = i})
          + Cardinality({j \in started :
                            j.fn = PROCESS_STORY /\ j.arg = i /\ j.by # 0}) <= 1

(***************************************************************************)
(* C33: between two starts of the application an issue never has more     *)
(* than MAX_RETRIES rows with status FAILED, also when two workers run     *)
(* process_story for the issue at the same time and both pass the guard    *)
(* before either has recorded its outcome.                                 *)
(***************************************************************************)
C33_FailedRowsBounded ==
    \A i \in IssuesOf(board) : Cardinality(FailedRows(ledger, i)) <= MAX_RETRIES

(***************************************************************************)
(* C34: every invocation of process_story adds exactly one row to the      *)
(* table; provided the database answers, the invocation that has just      *)
(* returned has a row of its own.                                          *)
(***************************************************************************)
C34_OneRowPerInvocation ==
    (lastRun.issue # 0 /\ lastRun.age = 0 /\ "db" \notin lastRun.faults) =>
        /\ lastRun.row \in DOMAIN ledger
        /\ ledger[lastRun.row].issue = lastRun.issue

(***************************************************************************)
(* C34 as amended: every invocation of process_story that the retry guard  *)
(* lets through adds exactly one row, its own, with status RUNNING, before *)
(* any other work; an invocation that the guard blocks (or whose database  *)
(* call raises) adds none; no other step adds or removes a row.            *)
(***************************************************************************)
C34_OneRowPerAttemptLetThrough ==
    [][ /\ Len(ledger') = Len(ledger)
                            + Cardinality({w \in DOMAIN wk : /\ wk[w].pc = "guard"
                                                             /\ wk'[w].pc = "setup"})
        /\ \A w \in DOMAIN wk :
              /\ (wk[w].pc = "guard" /\ wk'[w].pc = "setup") =>
                    /\ ~RetryGuard(ledger, wk[w].issue)
                    /\ wk'[w].row = Len(ledger')
                    /\ ledger'[wk'[w].row] = [issue |-> wk[w].issue,
                                              status |-> "running"]
              /\ (wk[w].pc = "guard" /\ wk'[w].pc = "idle") =>
                    /\ lastRun'.row = 0
                    /\ RetryGuard(ledger, wk[w].issue) \/ "db" \in lastRun'.faults
              /\ (wk[w].pc \notin {"idle", "guard"} /\ wk'[w].pc # "idle") =>
                    wk'[w].row = wk[w].row ]_vars

(* The guard has just blocked an invocation of issue 1, which added no row *)
(* to the three failed ones.                                               *)
C34_Witness ==
    /\ lastRun.issue = 1
    /\ lastRun.ret = "blocked"
    /\ lastRun.at = "guard"
    /\ lastRun.row = 0
    /\ lastRun.age = 0
    /\ Cardinality(FailedRows(ledger, 1)) = MAX_RETRIES
    /\ Len(ledger) = MAX_RETRIES


(* C35 (as stated): on a successful coding result the steps happen in the
   order commit/push, PR creation, board move to in-review, Job sealed
   success, memory compression; the item is in in-review only if a PR was
   created, and a row is success only if the item was moved to in-review and
   the row carries that PR number and branch. *)
DeliverOrder == <<"push", "pr", "move", "seal", "compress">>

C35_SuccessOnlyAfterBoardMove ==
    /\ Len(delivery.done) <= Len(DeliverOrder)
    /\ delivery.done = SubSeq(DeliverOrder, 1, Len(delivery.done))
    /\ delivery.item = "In review" => delivery.pr.opened
    /\ delivery.row.status = "success" =>
          /\ delivery.moved
          /\ delivery.row.pr = delivery.number
          /\ delivery.row.branch = delivery.branch

(* C35 (amended): the steps happen in that order; the item is in in-review
   only if a PR was created; a row is success only if the PR was created, the
   move to in-review was made without raising (it moves the item when the item
   is still on the board and does nothing when it is not), and the row carries
   that PR number and branch. *)
C35_SuccessOnlyAfterMoveStep ==
    /\ Len(delivery.done) <= Len(DeliverOrder)
    /\ delivery.done = SubSeq(DeliverOrder, 1, Len(delivery.done))
    /\ delivery.item = "In review" => delivery.pr.opened
    /\ delivery.row.status = "success" =>
          /\ delivery.pr.opened
          /\ Len(delivery.done) >= 3
          /\ delivery.moved \/ delivery.item = ""
          /\ delivery.moved => delivery.item = "In review"
          /\ delivery.row.pr = delivery.number
          /\ delivery.number \in 1..NumPulls
          /\ delivery.row.branch = delivery.branch

C35_Witness ==
    /\ delivery.pc = "returned"
    /\ delivery.done = DeliverOrder
    /\ delivery.item = "In review"
    /\ delivery.row = [status |-> "success", pr |-> NumPulls, branch |-> "feature/1-story"]


C37_PrBaseIsBranchBase ==
    delivery.pr.opened => delivery.pr.base = delivery.from


(* C38: determine_base_branch returns the head branch of the most recently
   created open pull request that targets the default base when that branch
   still exists on the remote, and the default base in every other case (no
   such pull request, the branch missing, an error while querying); it never
   raises. *)
C38_StacksOnNewestOpenPull ==
    (call.fn = "determine_base_branch" /\ call.pc = "done") =>
        LET targeting == {n \in DOMAIN call.pulls :
                             call.pulls[n].open /\ call.pulls[n].base = call.default}
            newest == {n \in targeting : \A k \in targeting : k <= n}
        IN  /\ call.res.ends = "returned"
            /\ \A n \in newest :
                  (call.api = "ok" /\ call.pulls[n].head \in call.branches)
                     => call.res.base = call.pulls[n].head
            /\ (\/ call.api # "ok"
                \/ targeting = {}
                \/ \E n \in newest : call.pulls[n].head \notin call.branches)
                  => call.res.base = call.default

C38_Witness ==
    /\ call.fn = "determine_base_branch"
    /\ call.pc = "done"
    /\ call.api = "ok"
    /\ call.default = "develop"
    /\ \A n \in DOMAIN call.pulls : call.pulls[n].open /\ call.pulls[n].base = "develop"
    /\ call.pulls[1].head = "feature/1-story"
    /\ call.pulls[NumPulls].head = "bug/2-crash"
    /\ call.branches = PullHeads
    /\ call.res.base = "bug/2-crash"


(* C39: from any prior state of the local clone (a rebase, merge or
   cherry-pick in progress, modified or untracked files, a stale local branch
   with the feature branch's name), _clone_repo followed by
   _create_feature_branch ends in the same state as from a clean clone: no
   operation in progress, a clean working tree, the feature branch checked
   out and freshly created at the remote base. *)
C39_PipelineEntryIdempotent ==
    (call.fn = "enter_pipeline" /\ call.pc = "done") =>
        /\ call.res = EnterPipeline(FreshClone)
        /\ ~call.res.err
        /\ call.res.op = "none"
        /\ ~call.res.modified /\ ~call.res.untracked
        /\ call.res.head = FEATURE
        /\ call.res.feature = "fresh"

C39_Witness ==
    /\ call.fn = "enter_pipeline"
    /\ call.pc = "done"
    /\ call.clone.op = "rebase"
    /\ call.clone.head = "detached"
    /\ call.clone.orig = FEATURE
    /\ call.clone.feature = "stale"
    /\ call.clone.modified /\ call.clone.untracked
    /\ call.res.head = FEATURE
    /\ call.res.feature = "fresh"


(***************************************************************************)
(* C40: in every reachable state of the poller the issues recorded as      *)
(* having left the trigger status are among the seen issues, and an issue  *)
(* enters that set only on a tick that fetched the board and found it, a   *)
(* seen issue, with a non-empty status other than the trigger status.      *)
(***************************************************************************)
C40_LeftWithinSeen ==
    /\ [](left_ready \subseteq seen_issues)
    /\ [][ \A i \in left_ready' \ left_ready :
              /\ lastTick'.ok
              /\ board' = board
              /\ i \in seen_issues
              /\ Lower(board[i]) \notin {"", TRIGGER_STATUS} ]_vars

C40_Witness ==
    \E i \in left_ready, j \in seen_issues \ left_ready :
        /\ lastTick.ok
        /\ lastTick.ds = {}
        /\ Lower(board[i]) \notin {"", TRIGGER_STATUS}
        /\ trigCount[i] = 0
        /\ IsReady(j)

=============================================================================
